---- MODULE Spec2Model ----
(***************************************************************************)
(* Model of llm_api_benchmark: the provider adapters (providers.py), the   *)
(* statistics reduction and the measurement loops of LLMAPIBenchmark       *)
(* (benchmark.py).                                                         *)
(*                                                                         *)
(* Conventions.                                                            *)
(*  - A Python str / bytes value is a sequence of tokens.  A token is one  *)
(*    character, except that the literal prefixes "data:" and "event:" and *)
(*    a JSON text are kept as single tokens of a line.                     *)
(*  - A decoded JSON value is a tagged record (JNull, JInt, JStr, JList,   *)
(*    JObj).                                                               *)
(*  - A Python call that may raise returns [ok |-> TRUE, val |-> v] or     *)
(*    [ok |-> FALSE, exc |-> "<exception class>"].                         *)
(*  - A float is an exact rational [num, den] in lowest terms; the wall    *)
(*    clock counts whole time units.                                       *)
(***************************************************************************)
EXTENDS Integers, Sequences, FiniteSets, TLC

\* ------------------------------------------------------------------ bounds
MaxRuns == 2
MaxLines == 2
MaxPostTick == 2
MaxLineTick == 1
MaxClock == 5

\* ------------------------------------------------------- Python primitives
Ok(v) == [ok |-> TRUE, val |-> v]

Raise(e) == [ok |-> FALSE, exc |-> e]

None == [t |-> "null"]

JNull == [t |-> "null"]

JInt(n) == [t |-> "int", v |-> n]

JStr(s) == [t |-> "str", v |-> s]

JList(l) == [t |-> "list", v |-> l]

JObj(o) == [t |-> "obj", v |-> o]

\* bool(x) of a decoded JSON value
Truthy(x) ==
    CASE x.t = "null" -> FALSE
      [] x.t = "int"  -> x.v # 0
      [] x.t = "str"  -> x.v # <<>>
      [] x.t = "list" -> x.v # <<>>
      [] x.t = "obj"  -> DOMAIN x.v # {}

\* x.get(key, default): only a dict has get
DictGet(x, key, default) ==
    IF x.t # "obj" THEN Raise("AttributeError")
    ELSE IF key \in DOMAIN x.v THEN Ok(x.v[key]) ELSE Ok(default)

\* x[0]
Index0(x) ==
    CASE x.t = "list" -> IF x.v = <<>> THEN Raise("IndexError") ELSE Ok(x.v[1])
      [] x.t = "str"  -> IF x.v = <<>> THEN Raise("IndexError") ELSE Ok(JStr(<<x.v[1]>>))
      [] x.t = "obj"  -> Raise("KeyError")
      [] OTHER        -> Raise("TypeError")

\* ASCII whitespace, as bytes.strip() and str.split() see it
IsSpace(c) == c \in {" ", "\t"}

\* s.strip()
RECURSIVE LStrip(_)
LStrip(s) == IF s # <<>> /\ IsSpace(Head(s)) THEN LStrip(Tail(s)) ELSE s

RECURSIVE RStrip(_)
RStrip(s) ==
    IF s # <<>> /\ IsSpace(s[Len(s)]) THEN RStrip(SubSeq(s, 1, Len(s) - 1)) ELSE s

Strip(s) == RStrip(LStrip(s))

\* len(s.split())
WordCount(s) ==
    Cardinality({k \in 1..Len(s) : ~IsSpace(s[k]) /\ (k = 1 \/ IsSpace(s[k - 1]))})

UpperChars == <<"A", "B", "C", "D", "E", "F", "G", "H", "I", "J", "K", "L", "M",
                "N", "O", "P", "Q", "R", "S", "T", "U", "V", "W", "X", "Y", "Z">>

LowerChars == <<"a", "b", "c", "d", "e", "f", "g", "h", "i", "j", "k", "l", "m",
                "n", "o", "p", "q", "r", "s", "t", "u", "v", "w", "x", "y", "z">>

LowerChar(c) ==
    IF \E k \in 1..Len(UpperChars) : UpperChars[k] = c
    THEN LowerChars[CHOOSE k \in 1..Len(UpperChars) : UpperChars[k] = c]
    ELSE c

\* s.lower()
Lower(s) == [k \in 1..Len(s) |-> LowerChar(s[k])]

\* sep.join(parts)
RECURSIVE Join(_, _)
Join(sep, parts) ==
    IF parts = <<>> THEN <<>>
    ELSE IF Len(parts) = 1 THEN parts[1]
    ELSE parts[1] \o sep \o Join(sep, Tail(parts))

\* sub in s
Contains(s, sub) ==
    \E k \in 0..(Len(s) - Len(sub)) : SubSeq(s, k + 1, k + Len(sub)) = sub

\* ----------------------------------------------------------------- providers
S_openai == <<"o", "p", "e", "n", "a", "i">>

S_claude == <<"c", "l", "a", "u", "d", "e">>

S_azure == <<"a", "z", "u", "r", "e">>

\* PROVIDERS: the registry, keys in insertion order, and the class of each key
PROVIDERS_keys == <<S_openai, S_claude, S_azure>>

PROVIDERS_class == <<"OpenAIProvider", "ClaudeProvider", "AzureOpenAIProvider">>

PROVIDERS_get(key) ==
    IF \E k \in 1..Len(PROVIDERS_keys) : PROVIDERS_keys[k] = key
    THEN PROVIDERS_class[CHOOSE k \in 1..Len(PROVIDERS_keys) : PROVIDERS_keys[k] = key]
    ELSE "None"

\* the two literal parts of the ValueError message of create_provider
MsgUnsupported == <<"unsupported API type: ">>

MsgSupported == <<". supported types: ">>

\* create_provider looking the tag up without lower()
create_provider_nolower(api_type) ==
    LET provider_class == PROVIDERS_get(api_type)
    IN  IF provider_class = "None"
        THEN [ok |-> FALSE, exc |-> "ValueError",
              msg |-> MsgUnsupported \o api_type \o MsgSupported
                      \o Join(<<",", " ">>, PROVIDERS_keys)]
        ELSE Ok(provider_class)

create_provider(api_type) ==
    LET provider_class == PROVIDERS_get(Lower(api_type))
    IN  IF provider_class = "None"
        THEN [ok |-> FALSE, exc |-> "ValueError",
              msg |-> MsgUnsupported \o api_type \o MsgSupported
                      \o Join(<<",", " ">>, PROVIDERS_keys)]
        ELSE Ok(provider_class)

\* ------------------------------------------------------ streaming line model
T_delta == "{\"type\":\"content_block_delta\"}"

T_start == "{\"type\":\"message_start\"}"

T_id == "{\"id\":\"test\"}"

T_done == "[DONE]"

T_list == "[1]"

L_empty == <<>>

L_blank == <<" ", " ">>

L_delta == <<"data:", " ", T_delta>>

L_start == <<"data:", " ", T_start>>

L_id == <<"data:", " ", T_id>>

L_done == <<"data:", " ", T_done>>

L_list == <<"data:", " ", T_list>>

L_ping == <<"event:", " ", "p", "i", "n", "g">>

\* json.loads(text) for the texts above; anything else is not JSON
json_loads(text) ==
    CASE text = <<T_delta>> -> Ok(JObj([type |-> JStr(<<"content_block_delta">>)]))
      [] text = <<T_start>> -> Ok(JObj([type |-> JStr(<<"message_start">>)]))
      [] text = <<T_id>>    -> Ok(JObj([id |-> JStr(<<"test">>)]))
      [] text = <<T_list>>  -> Ok(JList(<<JInt(1)>>))
      [] OTHER              -> Raise("JSONDecodeError")

\* the same without the strip()
OpenAI_is_first_content_event_nostrip(line) == line # <<>>

OpenAI_is_first_content_event(line) == line # <<>> /\ Strip(line) # <<>>

Claude_is_first_content_event(line) ==
    IF line = <<>> THEN Ok(FALSE)
    ELSE LET decoded == Strip(line)
         IN  IF decoded # <<>> /\ Head(decoded) = "data:"
             THEN LET data == json_loads(Strip(Tail(decoded)))
                  IN  IF ~data.ok THEN Ok(FALSE)
                      ELSE LET ty == DictGet(data.val, "type", None)
                           IN  IF ~ty.ok THEN ty
                               ELSE Ok(ty.val = JStr(<<"content_block_delta">>))
             ELSE Ok(FALSE)

Azure_is_first_content_event(line) == line # <<>> /\ Strip(line) # <<>>

is_first_content_event(provider, line) ==
    CASE provider = "OpenAIProvider"      -> Ok(OpenAI_is_first_content_event(line))
      [] provider = "ClaudeProvider"      -> Claude_is_first_content_event(line)
      [] provider = "AzureOpenAIProvider" -> Ok(Azure_is_first_content_event(line))

\* ------------------------------------------------------- non-streaming bodies
S_abc == <<"a", " ", "b", " ", "c">>

S_ab == <<"a", " ", "b">>

\* {"usage": {"completion_tokens": 100}, "choices": [{"message": {"content": "a b c"}}]}
B_usage == JObj([usage |-> JObj([completion_tokens |-> JInt(100)]),
                 choices |-> JList(<<JObj([message |-> JObj([content |-> JStr(S_abc)])])>>)])

\* {"usage": {}, "choices": [{"message": {"content": "a b c"}}]}
B_fallback == JObj([usage |-> JObj(<<>>),
                    choices |-> JList(<<JObj([message |-> JObj([content |-> JStr(S_abc)])])>>)])

\* {"usage": {"output_tokens": 100}, "content": [{"text": "a b"}]}
B_claude == JObj([usage |-> JObj([output_tokens |-> JInt(100)]),
                  content |-> JList(<<JObj([text |-> JStr(S_ab)])>>)])

\* {"error": {"message": "a b"}}
B_error == JObj([error |-> JObj([message |-> JStr(S_ab)])])

\* {"choices": [], "content": []}
B_nochoice == JObj([choices |-> JList(<<>>), content |-> JList(<<>>)])

\* {"usage": null, "content": null}
B_nullusage == JObj([usage |-> JNull, content |-> JNull])

\* {"usage": {"completion_tokens": null, "output_tokens": null}}
B_nullcount == JObj([usage |-> JObj([completion_tokens |-> JNull, output_tokens |-> JNull])])

\* a body that is not JSON (an HTML error page, an empty body)
B_notjson == [t |-> "notjson"]

\* response.json()
response_json_of(body) ==
    IF body.t = "notjson" THEN Raise("JSONDecodeError") ELSE Ok(body)

OpenAI_parse_content(response_json) ==
    LET choices == DictGet(response_json, "choices", JList(<<JObj(<<>>)>>))
    IN  IF ~choices.ok THEN choices
        ELSE LET first == Index0(choices.val)
             IN  IF ~first.ok THEN first
                 ELSE LET message == DictGet(first.val, "message", JObj(<<>>))
                      IN  IF ~message.ok THEN message
                          ELSE DictGet(message.val, "content", JStr(<<>>))

\* count = len(content.split()) if content else 0
SplitCount(content) ==
    IF ~Truthy(content) THEN Ok(JInt(0))
    ELSE IF content.t = "str" THEN Ok(JInt(WordCount(content.v)))
    ELSE Raise("AttributeError")

OpenAI_parse_token_count(response_json) ==
    LET usage == DictGet(response_json, "usage", JObj(<<>>))
    IN  IF ~usage.ok THEN usage
        ELSE LET count == DictGet(usage.val, "completion_tokens", JInt(0))
             IN  IF ~count.ok THEN count
                 ELSE IF count.val = JInt(0)
                      THEN LET content == OpenAI_parse_content(response_json)
                           IN  IF ~content.ok THEN content ELSE SplitCount(content.val)
                      ELSE count

Claude_parse_token_count(response_json) ==
    LET usage == DictGet(response_json, "usage", JObj(<<>>))
    IN  IF ~usage.ok THEN usage
        ELSE DictGet(usage.val, "output_tokens", JInt(0))

Claude_parse_content(response_json) ==
    LET content_blocks == DictGet(response_json, "content", JList(<<>>))
    IN  IF ~content_blocks.ok THEN content_blocks
        ELSE IF Truthy(content_blocks.val)
             THEN LET first == Index0(content_blocks.val)
                  IN  IF ~first.ok THEN first
                      ELSE DictGet(first.val, "text", JStr(<<>>))
             ELSE Ok(JStr(<<>>))

Azure_parse_content(response_json) ==
    LET choices == DictGet(response_json, "choices", JList(<<JObj(<<>>)>>))
    IN  IF ~choices.ok THEN choices
        ELSE LET first == Index0(choices.val)
             IN  IF ~first.ok THEN first
                 ELSE LET message == DictGet(first.val, "message", JObj(<<>>))
                      IN  IF ~message.ok THEN message
                          ELSE DictGet(message.val, "content", JStr(<<>>))

Azure_parse_token_count(response_json) ==
    LET usage == DictGet(response_json, "usage", JObj(<<>>))
    IN  IF ~usage.ok THEN usage
        ELSE LET count == DictGet(usage.val, "completion_tokens", JInt(0))
             IN  IF ~count.ok THEN count
                 ELSE IF count.val = JInt(0)
                      THEN LET content == Azure_parse_content(response_json)
                           IN  IF ~content.ok THEN content ELSE SplitCount(content.val)
                      ELSE count

parse_token_count(provider, response_json) ==
    CASE provider = "OpenAIProvider"      -> OpenAI_parse_token_count(response_json)
      [] provider = "ClaudeProvider"      -> Claude_parse_token_count(response_json)
      [] provider = "AzureOpenAIProvider" -> Azure_parse_token_count(response_json)

parse_content(provider, response_json) ==
    CASE provider = "OpenAIProvider"      -> OpenAI_parse_content(response_json)
      [] provider = "ClaudeProvider"      -> Claude_parse_content(response_json)
      [] provider = "AzureOpenAIProvider" -> Azure_parse_content(response_json)

\* ------------------------------------------------------------------ payloads
ClaudeMaxTokens == 1024

Messages(prompt) == <<[role |-> "user", content |-> prompt]>>

OpenAI_build_chat_payload(model, prompt, stream) ==
    [model |-> model, messages |-> Messages(prompt), stream |-> stream]

\* the stream key written whatever the argument, as the other two variants do
Claude_build_chat_payload_always(model, prompt, stream) ==
    [model |-> model, max_tokens |-> ClaudeMaxTokens,
     messages |-> Messages(prompt), stream |-> stream]

Claude_build_chat_payload(model, prompt, stream) ==
    LET payload == [model |-> model, max_tokens |-> ClaudeMaxTokens,
                    messages |-> Messages(prompt)]
    IN  IF stream
        THEN [model |-> model, max_tokens |-> ClaudeMaxTokens,
              messages |-> Messages(prompt), stream |-> TRUE]
        ELSE payload

\* the OpenAI payload, model included
Azure_build_chat_payload_withmodel(model, prompt, stream) ==
    [model |-> model, messages |-> Messages(prompt), stream |-> stream]

Azure_build_chat_payload(model, prompt, stream) ==
    [messages |-> Messages(prompt), stream |-> stream]

build_chat_payload(provider, model, prompt, stream) ==
    CASE provider = "OpenAIProvider"      -> OpenAI_build_chat_payload(model, prompt, stream)
      [] provider = "ClaudeProvider"      -> Claude_build_chat_payload(model, prompt, stream)
      [] provider = "AzureOpenAIProvider" -> Azure_build_chat_payload(model, prompt, stream)

\* ------------------------------------------------------------------ numbers
Abs(a) == IF a < 0 THEN -a ELSE a

RECURSIVE GCD(_, _)
GCD(a, b) == IF b = 0 THEN a ELSE GCD(b, a % b)

\* the rational n/d (d # 0) in lowest terms with a positive denominator
Rat(n, d) ==
    LET g == GCD(Abs(n), Abs(d))
        sgn == IF d < 0 THEN -1 ELSE 1
    IN  [num |-> (sgn * n) \div g, den |-> (sgn * d) \div g]

RInt(n) == [num |-> n, den |-> 1]

RAdd(a, b) == Rat(a.num * b.den + b.num * a.den, a.den * b.den)

RSub(a, b) == Rat(a.num * b.den - b.num * a.den, a.den * b.den)

RMul(a, b) == Rat(a.num * b.num, a.den * b.den)

RDiv(a, b) == Rat(a.num * b.den, a.den * b.num)

RLe(a, b) == a.num * b.den <= b.num * a.den

RLt(a, b) == a.num * b.den < b.num * a.den

\* math.floor, math.ceil
Floor(a) == a.num \div a.den

Ceil(a) == -((-a.num) \div a.den)

RECURSIVE RSum(_)
RSum(data) == IF data = <<>> THEN RInt(0) ELSE RAdd(Head(data), RSum(Tail(data)))

\* the largest r with r * r <= n
RECURSIVE ISqrtFrom(_, _)
ISqrtFrom(n, r) == IF (r + 1) * (r + 1) > n THEN r ELSE ISqrtFrom(n, r + 1)

\* sqrt of a non-negative rational: exact when both terms are squares,
\* otherwise kept symbolically
Sqrt(a) ==
    LET rn == ISqrtFrom(a.num, 0)
        rd == ISqrtFrom(a.den, 0)
    IN  IF rn * rn = a.num /\ rd * rd = a.den THEN Rat(rn, rd) ELSE [sqrt_of |-> a]

\* ---------------------------------------------------------- _compute_stats
RECURSIVE Insert(_, _)
Insert(x, sorted) ==
    IF sorted = <<>> THEN <<x>>
    ELSE IF RLt(x, Head(sorted)) THEN <<x>> \o sorted
    ELSE <<Head(sorted)>> \o Insert(x, Tail(sorted))

\* sorted(data): ascending, stable
RECURSIVE Sorted(_)
Sorted(data) ==
    IF data = <<>> THEN <<>>
    ELSE Insert(data[Len(data)], Sorted(SubSeq(data, 1, Len(data) - 1)))

\* the sum left undivided
Mean_undivided(data) == RSum(data)

\* statistics.mean
Mean(data) == RDiv(RSum(data), RInt(Len(data)))

\* statistics.median
Median(data) ==
    LET s == Sorted(data)
        n == Len(data)
    IN  IF n % 2 = 1 THEN s[(n \div 2) + 1]
        ELSE RDiv(RAdd(s[n \div 2], s[(n \div 2) + 1]), RInt(2))

\* statistics.stdev: the sample standard deviation (n - 1 denominator)
Stdev(data) ==
    LET m == Mean(data)
        sq == [k \in 1..Len(data) |-> RMul(RSub(data[k], m), RSub(data[k], m))]
    IN  Sqrt(RDiv(RSum(sq), RInt(Len(data) - 1)))

\* the two interpolation weights exchanged
percentile_swapped(sorted_data, pct) ==
    LET n == Len(sorted_data)
        k == RMul(RInt(n - 1), Rat(pct, 100))
        f == Floor(k)
        c == Ceil(k)
    IN  IF n = 1 THEN sorted_data[1]
        ELSE IF f = c THEN sorted_data[f + 1]
        ELSE RAdd(RMul(sorted_data[f + 1], RSub(k, RInt(f))),
                  RMul(sorted_data[c + 1], RSub(RInt(c), k)))

\* the nested percentile(pct) of _compute_stats; sorted_data is 0-indexed there
percentile(sorted_data, pct) ==
    LET n == Len(sorted_data)
        k == RMul(RInt(n - 1), Rat(pct, 100))
        f == Floor(k)
        c == Ceil(k)
    IN  IF n = 1 THEN sorted_data[1]
        ELSE IF f = c THEN sorted_data[f + 1]
        ELSE RAdd(RMul(sorted_data[f + 1], RSub(RInt(c), k)),
                  RMul(sorted_data[c + 1], RSub(k, RInt(f))))

Min(data) == CHOOSE x \in {data[k] : k \in 1..Len(data)} :
                 \A j \in 1..Len(data) : RLe(x, data[j])

Max(data) == CHOOSE x \in {data[k] : k \in 1..Len(data)} :
                 \A j \in 1..Len(data) : RLe(data[j], x)

\* std_dev of a single sample given as the sample instead of 0
_compute_stats_single(data) ==
    IF data = <<>>
    THEN [avg |-> RInt(0), min |-> RInt(0), max |-> RInt(0), median |-> RInt(0),
          p90 |-> RInt(0), p99 |-> RInt(0), std_dev |-> RInt(0), raw |-> <<>>]
    ELSE LET sorted_data == Sorted(data)
             n == Len(sorted_data)
         IN  [avg |-> Mean(data),
              min |-> Min(data),
              max |-> Max(data),
              median |-> Median(data),
              p90 |-> percentile(sorted_data, 90),
              p99 |-> percentile(sorted_data, 99),
              std_dev |-> IF n >= 2 THEN Stdev(data) ELSE sorted_data[1],
              raw |-> data]


_compute_stats(data) ==
    IF data = <<>>
    THEN [avg |-> RInt(0), min |-> RInt(0), max |-> RInt(0), median |-> RInt(0),
          p90 |-> RInt(0), p99 |-> RInt(0), std_dev |-> RInt(0), raw |-> <<>>]
    ELSE LET sorted_data == Sorted(data)
             n == Len(sorted_data)
         IN  [avg |-> Mean(data),
              min |-> Min(data),
              max |-> Max(data),
              median |-> Median(data),
              p90 |-> percentile(sorted_data, 90),
              p99 |-> percentile(sorted_data, 99),
              std_dev |-> IF n >= 2 THEN Stdev(data) ELSE RInt(0),
              raw |-> data]

\* ---------------------------------------------------------------- the state
VARIABLES
    pc,                \* position of the caller / of the runner's current method
    benchmark,         \* the LLMAPIBenchmark object the caller holds, or "None"
    api_type,          \* self.api_type (assigned before create_provider is called)
    provider,          \* class of self.provider, or "None"
    error,             \* the exception that reached the caller, or [exc |-> "None"]
    prompt,            \* argument of run_comprehensive_benchmark
    runs,              \* argument of run_comprehensive_benchmark
    i,                 \* loop variable of the current measure_* call
    now,               \* time.time()
    start_time,        \* local of the current run
    elapsed,           \* local of measure_token_throughput
    latency,           \* local of measure_first_token_latency (Unbound until assigned)
    latencies,         \* local list of measure_first_token_latency
    throughputs,       \* local list of measure_token_throughput
    total_times,       \* local list of measure_token_throughput
    response,          \* the response of the current run, or NoResponse
    lines,             \* lines yielded so far by response.iter_lines(), with arrival time
    latency_stats,     \* value returned by measure_first_token_latency
    throughput_stats,  \* first value returned by measure_token_throughput
    total_time_stats,  \* second value returned by measure_token_throughput
    results,           \* value returned by run_comprehensive_benchmark
    requests,          \* history: every requests.post call, in issue order
    open,              \* history: indexes of requests whose response is neither
                       \*          fully received nor closed
    failed,            \* history: index of the request whose HTTP call raised, or 0
    qualified,         \* history: the runs of the latency call in which
                       \*          is_first_content_event returned true, each with
                       \*          its sample, in the order in which that happened
    tainted,           \* history: series holding a sample taken from a non-2xx response
    stamp,             \* history: clock value of the current run's sample, or -1
    sleep_from,        \* history: clock value at which the last delay started, or -1
    sleep_to,          \* history: clock value at which the last delay ended, or -1
    call,              \* a direct call of one function: its name and arguments, or NoCall
    ret,               \* what that call returned or raised, or NotReturned
    heap,              \* the list objects of that call: heap[r] is the list with reference r
    apis,              \* self.config["apis"] of the BatchBenchmark
    api_index,         \* loop variable i of run_batch_tests
    batch_results,     \* local list results of run_batch_tests
    outcomes,          \* history: what became of each configuration, in handling order
    posted             \* history: indexes of the configurations whose benchmark was run

vars == <<pc, benchmark, api_type, provider, error, prompt, runs, i, now, start_time,
          elapsed, latency, latencies, throughputs, total_times, response, lines,
          latency_stats, throughput_stats, total_time_stats, results,
          requests, open, failed, qualified, tainted, stamp, sleep_from, sleep_to,
          call, ret, heap, apis, api_index, batch_results, outcomes, posted>>

\* everything run_batch_tests owns
batch_vars == <<apis, api_index, batch_results, outcomes, posted>>

\* ------------------------------------------------------------------- inputs
S_OpenAI == <<"O", "p", "e", "n", "A", "I">>

S_invalid_type == <<"i", "n", "v", "a", "l", "i", "d", "_", "t", "y", "p", "e">>

S_openai_sp == <<"o", "p", "e", "n", "a", "i", " ">>

Tags == {S_openai, S_OpenAI, S_claude, S_azure, S_invalid_type, S_openai_sp}

S_model == <<"g", "p", "t">>

S_url == <<"h", "t", "t", "p">>

Prompts == {<<"h", "i">>}

StatusCodes == {200, 500}

StreamLines == {L_empty, L_delta, L_id, L_list}

Bodies == {B_usage, B_fallback, B_claude, B_error, B_nochoice, B_nullusage,
           B_nullcount, B_notjson}

\* time.sleep(1)
SleepSeconds == 1

Unbound == [unbound |-> TRUE]

NoResponse == [status_code |-> 0]

NoError == [exc |-> "None"]

NoCall == [fn |-> "None"]

NotReturned == [returned |-> FALSE]

Is2xx(status) == status >= 200 /\ status < 300

\* clock advances an I/O wait may take
Ticks(max) == {d \in 0..max : now + d <= MaxClock}

Init ==
    /\ pc = "new"
    /\ benchmark = "None"
    /\ api_type = <<>>
    /\ provider = "None"
    /\ error = NoError
    /\ prompt = <<>>
    /\ runs = 0
    /\ i = 0
    /\ now = 0
    /\ start_time = 0
    /\ elapsed = 0
    /\ latency = Unbound
    /\ latencies = <<>>
    /\ throughputs = <<>>
    /\ total_times = <<>>
    /\ response = NoResponse
    /\ lines = <<>>
    /\ latency_stats = None
    /\ throughput_stats = None
    /\ total_time_stats = None
    /\ results = None
    /\ requests = <<>>
    /\ open = {}
    /\ failed = 0
    /\ qualified = <<>>
    /\ tainted = {}
    /\ stamp = -1
    /\ sleep_from = -1
    /\ sleep_to = -1
    /\ call = NoCall
    /\ ret = NotReturned
    /\ heap = <<>>
    /\ apis = <<>>
    /\ api_index = 0
    /\ batch_results = <<>>
    /\ outcomes = <<>>
    /\ posted = {}

\* ------------------------------------------------- LLMAPIBenchmark.__init__
Construct(tag) ==
    /\ pc = "new"
    /\ api_type' = tag
    /\ LET r == create_provider(tag)
       IN  IF r.ok
           THEN /\ benchmark' = "LLMAPIBenchmark"
                /\ provider' = r.val
                /\ pc' = "ready"
                /\ error' = error
           ELSE /\ error' = [exc |-> r.exc, msg |-> r.msg]
                /\ pc' = "raised"
                /\ UNCHANGED <<benchmark, provider>>
    /\ UNCHANGED <<prompt, runs, i, now, start_time, elapsed, latency, latencies,
                   throughputs, total_times, response, lines, latency_stats,
                   throughput_stats, total_time_stats, results, requests, open,
                   failed, qualified, tainted, stamp, sleep_from, sleep_to>>
    /\ UNCHANGED <<call, ret, heap>>
    /\ UNCHANGED batch_vars

\* ------------------------------------------------ run_comprehensive_benchmark
\* entry: up to the call of measure_first_token_latency(prompt, runs)
RunComprehensive(p, n) ==
    /\ pc = "ready"
    /\ prompt' = p
    /\ runs' = n
    /\ i' = 0
    /\ latencies' = <<>>
    /\ latency' = Unbound
    /\ pc' = "lat_loop"
    /\ UNCHANGED <<benchmark, api_type, provider, error, now, start_time, elapsed,
                   throughputs, total_times, response, lines, latency_stats,
                   throughput_stats, total_time_stats, results, requests, open,
                   failed, qualified, tainted, stamp, sleep_from, sleep_to>>
    /\ UNCHANGED <<call, ret, heap>>
    /\ UNCHANGED batch_vars

\* ------------------------------------------------ measure_first_token_latency
\* LatIssue with start_time taken once, before the loop
LatIssue_hoisted ==
    /\ pc = "lat_loop"
    /\ i < runs
    /\ requests' = Append(requests,
                          [payload |-> build_chat_payload(provider, S_model, prompt, TRUE),
                           stream |-> TRUE, run |-> i])
    /\ open' = open \cup {Len(requests) + 1}
    /\ start_time' = IF i = 0 THEN now ELSE start_time
    /\ stamp' = -1
    /\ pc' = "lat_post"
    /\ UNCHANGED <<benchmark, api_type, provider, error, prompt, runs, i, now, elapsed,
                   latency, latencies, throughputs, total_times, response, lines,
                   latency_stats, throughput_stats, total_time_stats, results,
                   failed, qualified, tainted, sleep_from, sleep_to>>
    /\ UNCHANGED <<call, ret, heap>>
    /\ UNCHANGED batch_vars

\* lines 85-94: build the payload, take start_time, issue the streaming POST
LatIssue ==
    /\ pc = "lat_loop"
    /\ i < runs
    /\ requests' = Append(requests,
                          [payload |-> build_chat_payload(provider, S_model, prompt, TRUE),
                           stream |-> TRUE, run |-> i])
    /\ open' = open \cup {Len(requests) + 1}
    /\ start_time' = now
    /\ stamp' = -1
    /\ pc' = "lat_post"
    /\ UNCHANGED <<benchmark, api_type, provider, error, prompt, runs, i, now, elapsed,
                   latency, latencies, throughputs, total_times, response, lines,
                   latency_stats, throughput_stats, total_time_stats, results,
                   failed, qualified, tainted, sleep_from, sleep_to>>
    /\ UNCHANGED <<call, ret, heap>>
    /\ UNCHANGED batch_vars

\* requests.post(..., stream=True) returns once the status line and headers arrived
LatPostReturn(d, status) ==
    /\ pc = "lat_post"
    /\ now' = now + d
    /\ response' = [status_code |-> status]
    /\ lines' = <<>>
    /\ pc' = "lat_iter"
    /\ UNCHANGED <<benchmark, api_type, provider, error, prompt, runs, i, start_time,
                   elapsed, latency, latencies, throughputs, total_times,
                   latency_stats, throughput_stats, total_time_stats, results,
                   requests, open, failed, qualified, tainted, stamp,
                   sleep_from, sleep_to>>
    /\ UNCHANGED <<call, ret, heap>>
    /\ UNCHANGED batch_vars

\* requests.post raises (connection refused, timeout): nothing catches it
LatPostRaise ==
    /\ pc = "lat_post"
    /\ error' = [exc |-> "ConnectionError"]
    /\ failed' = Len(requests)
    /\ open' = open \ {Len(requests)}
    /\ pc' = "raised"
    /\ UNCHANGED <<benchmark, api_type, provider, prompt, runs, i, now, start_time,
                   elapsed, latency, latencies, throughputs, total_times, response,
                   lines, latency_stats, throughput_stats, total_time_stats, results,
                   requests, qualified, tainted, stamp, sleep_from, sleep_to>>
    /\ UNCHANGED <<call, ret, heap>>
    /\ UNCHANGED batch_vars

\* LatReadLine without the break after the qualifying line
LatReadLine_nobreak(line, d) ==
    /\ pc = "lat_iter"
    /\ Len(lines) < MaxLines
    /\ now' = now + d
    /\ lines' = Append(lines, [line |-> line, at |-> now + d])
    /\ LET r == is_first_content_event(provider, line)
       IN  IF ~r.ok
           THEN /\ error' = [exc |-> r.exc]
                /\ pc' = "raised"
                /\ UNCHANGED <<latency, latencies, qualified, tainted, stamp>>
           ELSE IF r.val
           THEN /\ latency' = RInt((now + d) - start_time)
                /\ latencies' = Append(latencies, RInt((now + d) - start_time))
                /\ qualified' = Append(qualified, [run |-> i, sample |-> RInt((now + d) - start_time)])
                /\ tainted' = IF Is2xx(response.status_code) THEN tainted
                              ELSE tainted \cup {"latency"}
                /\ stamp' = now + d
                /\ pc' = pc
                /\ error' = error
           ELSE /\ pc' = pc
                /\ UNCHANGED <<error, latency, latencies, qualified, tainted, stamp>>
    /\ UNCHANGED <<benchmark, api_type, provider, prompt, runs, i, start_time, elapsed,
                   throughputs, total_times, response, latency_stats,
                   throughput_stats, total_time_stats, results, requests, open,
                   failed, sleep_from, sleep_to>>
    /\ UNCHANGED <<call, ret, heap>>
    /\ UNCHANGED batch_vars

\* lines 97-102: one iteration of the loop over response.iter_lines()
LatReadLine(line, d) ==
    /\ pc = "lat_iter"
    /\ Len(lines) < MaxLines
    /\ now' = now + d
    /\ lines' = Append(lines, [line |-> line, at |-> now + d])
    /\ LET r == is_first_content_event(provider, line)
       IN  IF ~r.ok
           THEN /\ error' = [exc |-> r.exc]
                /\ pc' = "raised"
                /\ UNCHANGED <<latency, latencies, qualified, tainted, stamp>>
           ELSE IF r.val
           THEN /\ latency' = RInt((now + d) - start_time)
                /\ latencies' = Append(latencies, RInt((now + d) - start_time))
                /\ qualified' = Append(qualified, [run |-> i, sample |-> RInt((now + d) - start_time)])
                /\ tainted' = IF Is2xx(response.status_code) THEN tainted
                              ELSE tainted \cup {"latency"}
                /\ stamp' = now + d
                /\ pc' = "lat_close"
                /\ error' = error
           ELSE /\ pc' = pc
                /\ UNCHANGED <<error, latency, latencies, qualified, tainted, stamp>>
    /\ UNCHANGED <<benchmark, api_type, provider, prompt, runs, i, start_time, elapsed,
                   throughputs, total_times, response, latency_stats,
                   throughput_stats, total_time_stats, results, requests, open,
                   failed, sleep_from, sleep_to>>
    /\ UNCHANGED <<call, ret, heap>>
    /\ UNCHANGED batch_vars

\* LatStreamEnd recording a zero for the run without a qualifying line
LatStreamEnd_zerofill ==
    /\ pc = "lat_iter"
    /\ pc' = "lat_close"
    /\ latency' = RInt(0)
    /\ latencies' = Append(latencies, RInt(0))
    /\ UNCHANGED <<benchmark, api_type, provider, error, prompt, runs, i, now,
                   start_time, elapsed, throughputs, total_times,
                   response, lines, latency_stats, throughput_stats,
                   total_time_stats, results, requests, open, failed, qualified,
                   tainted, stamp, sleep_from, sleep_to>>
    /\ UNCHANGED <<call, ret, heap>>
    /\ UNCHANGED batch_vars

\* response.iter_lines() is exhausted: the for loop ends without break
LatStreamEnd ==
    /\ pc = "lat_iter"
    /\ pc' = "lat_close"
    /\ UNCHANGED <<benchmark, api_type, provider, error, prompt, runs, i, now,
                   start_time, elapsed, latency, latencies, throughputs, total_times,
                   response, lines, latency_stats, throughput_stats,
                   total_time_stats, results, requests, open, failed, qualified,
                   tainted, stamp, sleep_from, sleep_to>>
    /\ UNCHANGED <<call, ret, heap>>
    /\ UNCHANGED batch_vars

\* response.iter_lines() raises (connection lost mid-stream): nothing catches it
LatIterRaise ==
    /\ pc = "lat_iter"
    /\ error' = [exc |-> "ConnectionError"]
    /\ failed' = Len(requests)
    /\ pc' = "raised"
    /\ UNCHANGED <<benchmark, api_type, provider, prompt, runs, i, now, start_time,
                   elapsed, latency, latencies, throughputs, total_times, response,
                   lines, latency_stats, throughput_stats, total_time_stats, results,
                   requests, open, qualified, tainted, stamp, sleep_from, sleep_to>>
    /\ UNCHANGED <<call, ret, heap>>
    /\ UNCHANGED batch_vars

\* LatClose that leaves the response open
LatClose_leak ==
    /\ pc = "lat_close"
    /\ pc' = "lat_print"
    /\ UNCHANGED <<benchmark, api_type, provider, error, prompt, runs, i, now,
                   start_time, elapsed, latency, latencies, throughputs, total_times,
                   response, lines, latency_stats, throughput_stats,
                   total_time_stats, results, requests, open, failed, qualified, tainted,
                   stamp, sleep_from, sleep_to>>
    /\ UNCHANGED <<call, ret, heap>>
    /\ UNCHANGED batch_vars

\* line 104: response.close()
LatClose ==
    /\ pc = "lat_close"
    /\ open' = open \ {Len(requests)}
    /\ pc' = "lat_print"
    /\ UNCHANGED <<benchmark, api_type, provider, error, prompt, runs, i, now,
                   start_time, elapsed, latency, latencies, throughputs, total_times,
                   response, lines, latency_stats, throughput_stats,
                   total_time_stats, results, requests, failed, qualified, tainted,
                   stamp, sleep_from, sleep_to>>
    /\ UNCHANGED <<call, ret, heap>>
    /\ UNCHANGED batch_vars

\* line 105: the print formats the local latency, which is assigned only at line 100
LatPrint ==
    /\ pc = "lat_print"
    /\ IF latency = Unbound
       THEN /\ error' = [exc |-> "UnboundLocalError"]
            /\ pc' = "raised"
       ELSE /\ error' = error
            /\ pc' = "lat_sleep"
    /\ UNCHANGED <<benchmark, api_type, provider, prompt, runs, i, now, start_time,
                   elapsed, latency, latencies, throughputs, total_times, response,
                   lines, latency_stats, throughput_stats, total_time_stats, results,
                   requests, open, failed, qualified, tainted, stamp,
                   sleep_from, sleep_to>>
    /\ UNCHANGED <<call, ret, heap>>
    /\ UNCHANGED batch_vars

\* line 106: time.sleep(1), then the next iteration
LatSleep ==
    /\ pc = "lat_sleep"
    /\ now' = now + SleepSeconds
    /\ sleep_from' = now
    /\ sleep_to' = now + SleepSeconds
    /\ i' = i + 1
    /\ pc' = "lat_loop"
    /\ UNCHANGED <<benchmark, api_type, provider, error, prompt, runs, start_time,
                   elapsed, latency, latencies, throughputs, total_times, response,
                   lines, latency_stats, throughput_stats, total_time_stats, results,
                   requests, open, failed, qualified, tainted, stamp>>
    /\ UNCHANGED <<call, ret, heap>>
    /\ UNCHANGED batch_vars

\* lines 108-110 and the return into run_comprehensive_benchmark (line 178),
\* up to the call of measure_token_throughput(prompt, runs)
\* the summary taken without the guard for an empty series: statistics.mean([])
\* raises
LatReturn_noguard ==
    /\ pc = "lat_loop"
    /\ i >= runs
    /\ IF latencies = <<>>
       THEN /\ error' = [exc |-> "StatisticsError"]
            /\ pc' = "raised"
            /\ UNCHANGED <<latency_stats, i, throughputs, total_times>>
       ELSE /\ latency_stats' = _compute_stats(latencies)
            /\ i' = 0
            /\ throughputs' = <<>>
            /\ total_times' = <<>>
            /\ pc' = "thr_loop"
            /\ error' = error
    /\ UNCHANGED <<benchmark, api_type, provider, prompt, runs, now, start_time,
                   elapsed, latency, latencies, response, lines, throughput_stats,
                   total_time_stats, results, requests, open, failed, qualified,
                   tainted, stamp, sleep_from, sleep_to>>
    /\ UNCHANGED <<call, ret, heap>>
    /\ UNCHANGED batch_vars

LatReturn ==
    /\ pc = "lat_loop"
    /\ i >= runs
    /\ latency_stats' = _compute_stats(latencies)
    /\ i' = 0
    /\ throughputs' = <<>>
    /\ total_times' = <<>>
    /\ pc' = "thr_loop"
    /\ UNCHANGED <<benchmark, api_type, provider, error, prompt, runs, now, start_time,
                   elapsed, latency, latencies, response, lines, throughput_stats,
                   total_time_stats, results, requests, open, failed, qualified,
                   tainted, stamp, sleep_from, sleep_to>>
    /\ UNCHANGED <<call, ret, heap>>
    /\ UNCHANGED batch_vars

\* --------------------------------------------------- measure_token_throughput
\* lines 126-134: build the payload, take start_time, issue the blocking POST
\* the throughput request built and sent as a streaming one
ThrIssue_streaming ==
    /\ pc = "thr_loop"
    /\ i < runs
    /\ requests' = Append(requests,
                          [payload |-> build_chat_payload(provider, S_model, prompt, TRUE),
                           stream |-> TRUE, run |-> i])
    /\ open' = open \cup {Len(requests) + 1}
    /\ start_time' = now
    /\ stamp' = -1
    /\ pc' = "thr_post"
    /\ UNCHANGED <<benchmark, api_type, provider, error, prompt, runs, i, now, elapsed,
                   latency, latencies, throughputs, total_times, response, lines,
                   latency_stats, throughput_stats, total_time_stats, results,
                   failed, qualified, tainted, sleep_from, sleep_to>>
    /\ UNCHANGED <<call, ret, heap>>
    /\ UNCHANGED batch_vars

ThrIssue ==
    /\ pc = "thr_loop"
    /\ i < runs
    /\ requests' = Append(requests,
                          [payload |-> build_chat_payload(provider, S_model, prompt, FALSE),
                           stream |-> FALSE, run |-> i])
    /\ open' = open \cup {Len(requests) + 1}
    /\ start_time' = now
    /\ stamp' = -1
    /\ pc' = "thr_post"
    /\ UNCHANGED <<benchmark, api_type, provider, error, prompt, runs, i, now, elapsed,
                   latency, latencies, throughputs, total_times, response, lines,
                   latency_stats, throughput_stats, total_time_stats, results,
                   failed, qualified, tainted, sleep_from, sleep_to>>
    /\ UNCHANGED <<call, ret, heap>>
    /\ UNCHANGED batch_vars

\* ThrPostReturn that leaves the total-time sample to the parsing step
ThrPostReturn_noappend(d, status, body) ==
    /\ pc = "thr_post"
    /\ now' = now + d
    /\ response' = [status_code |-> status, body |-> body]
    /\ open' = open \ {Len(requests)}
    /\ elapsed' = (now + d) - start_time
    /\ stamp' = now + d
    /\ pc' = "thr_parse"
    /\ UNCHANGED <<benchmark, api_type, provider, error, prompt, runs, i, start_time,
                   latency, latencies, throughputs, total_times, lines, latency_stats,
                   throughput_stats, total_time_stats, results, requests, failed,
                   qualified, tainted, sleep_from, sleep_to>>
    /\ UNCHANGED <<call, ret, heap>>
    /\ UNCHANGED batch_vars

\* lines 130-138: requests.post returns with the whole body read; end_time is
\* taken and the elapsed time is appended to total_times
ThrPostReturn(d, status, body) ==
    /\ pc = "thr_post"
    /\ now' = now + d
    /\ response' = [status_code |-> status, body |-> body]
    /\ open' = open \ {Len(requests)}
    /\ elapsed' = (now + d) - start_time
    /\ total_times' = Append(total_times, RInt((now + d) - start_time))
    /\ stamp' = now + d
    /\ tainted' = IF Is2xx(status) THEN tainted ELSE tainted \cup {"total_time"}
    /\ pc' = "thr_parse"
    /\ UNCHANGED <<benchmark, api_type, provider, error, prompt, runs, i, start_time,
                   latency, latencies, throughputs, lines, latency_stats,
                   throughput_stats, total_time_stats, results, requests, failed,
                   qualified, sleep_from, sleep_to>>
    /\ UNCHANGED <<call, ret, heap>>
    /\ UNCHANGED batch_vars

\* ThrPostRaise caught inside the loop: the run is skipped and the loop goes on
ThrPostRaise_skip ==
    /\ pc = "thr_post"
    /\ failed' = Len(requests)
    /\ open' = open \ {Len(requests)}
    /\ pc' = "thr_sleep"
    /\ UNCHANGED <<benchmark, api_type, provider, error, prompt, runs, i, now, start_time,
                   elapsed, latency, latencies, throughputs, total_times, response,
                   lines, latency_stats, throughput_stats, total_time_stats, results,
                   requests, qualified, tainted, stamp, sleep_from, sleep_to>>
    /\ UNCHANGED <<call, ret, heap>>
    /\ UNCHANGED batch_vars

\* requests.post raises (connection refused, timeout): nothing catches it
ThrPostRaise ==
    /\ pc = "thr_post"
    /\ error' = [exc |-> "ConnectionError"]
    /\ failed' = Len(requests)
    /\ open' = open \ {Len(requests)}
    /\ pc' = "raised"
    /\ UNCHANGED <<benchmark, api_type, provider, prompt, runs, i, now, start_time,
                   elapsed, latency, latencies, throughputs, total_times, response,
                   lines, latency_stats, throughput_stats, total_time_stats, results,
                   requests, qualified, tainted, stamp, sleep_from, sleep_to>>
    /\ UNCHANGED <<call, ret, heap>>
    /\ UNCHANGED batch_vars

\* ThrParse recording a sample whenever the elapsed time is positive
ThrParse_anytokens ==
    /\ pc = "thr_parse"
    /\ LET response_json == response_json_of(response.body)
           output_tokens == parse_token_count(provider, response_json.val)
       IN  IF ~response_json.ok
           THEN /\ error' = [exc |-> response_json.exc]
                /\ pc' = "raised"
                /\ UNCHANGED <<throughputs, tainted>>
           ELSE IF ~output_tokens.ok
           THEN /\ error' = [exc |-> output_tokens.exc]
                /\ pc' = "raised"
                /\ UNCHANGED <<throughputs, tainted>>
           ELSE IF elapsed > 0 /\ output_tokens.val.t # "int"
           THEN /\ error' = [exc |-> "TypeError"]
                /\ pc' = "raised"
                /\ UNCHANGED <<throughputs, tainted>>
           ELSE IF elapsed > 0
           THEN /\ throughputs' = Append(throughputs, Rat(output_tokens.val.v, elapsed))
                /\ tainted' = IF Is2xx(response.status_code) THEN tainted
                              ELSE tainted \cup {"throughput"}
                /\ pc' = "thr_sleep"
                /\ error' = error
           ELSE /\ pc' = "thr_sleep"
                /\ UNCHANGED <<error, throughputs, tainted>>
    /\ UNCHANGED <<benchmark, api_type, provider, prompt, runs, i, now, start_time,
                   elapsed, latency, latencies, total_times, response, lines,
                   latency_stats, throughput_stats, total_time_stats, results,
                   requests, open, failed, qualified, stamp, sleep_from, sleep_to>>
    /\ UNCHANGED <<call, ret, heap>>
    /\ UNCHANGED batch_vars

\* lines 139-147: response.json(), parse_token_count, the throughput sample
ThrParse ==
    /\ pc = "thr_parse"
    /\ LET response_json == response_json_of(response.body)
           output_tokens == parse_token_count(provider, response_json.val)
       IN  IF ~response_json.ok
           THEN /\ error' = [exc |-> response_json.exc]
                /\ pc' = "raised"
                /\ UNCHANGED <<throughputs, tainted>>
           ELSE IF ~output_tokens.ok
           THEN /\ error' = [exc |-> output_tokens.exc]
                /\ pc' = "raised"
                /\ UNCHANGED <<throughputs, tainted>>
           ELSE IF elapsed > 0 /\ output_tokens.val.t # "int"
           THEN /\ error' = [exc |-> "TypeError"]
                /\ pc' = "raised"
                /\ UNCHANGED <<throughputs, tainted>>
           ELSE IF elapsed > 0 /\ output_tokens.val.v > 0
           THEN /\ throughputs' = Append(throughputs, Rat(output_tokens.val.v, elapsed))
                /\ tainted' = IF Is2xx(response.status_code) THEN tainted
                              ELSE tainted \cup {"throughput"}
                /\ pc' = "thr_sleep"
                /\ error' = error
           ELSE /\ pc' = "thr_sleep"
                /\ UNCHANGED <<error, throughputs, tainted>>
    /\ UNCHANGED <<benchmark, api_type, provider, prompt, runs, i, now, start_time,
                   elapsed, latency, latencies, total_times, response, lines,
                   latency_stats, throughput_stats, total_time_stats, results,
                   requests, open, failed, qualified, stamp, sleep_from, sleep_to>>
    /\ UNCHANGED <<call, ret, heap>>
    /\ UNCHANGED batch_vars

\* line 149: time.sleep(1), then the next iteration
ThrSleep ==
    /\ pc = "thr_sleep"
    /\ now' = now + SleepSeconds
    /\ sleep_from' = now
    /\ sleep_to' = now + SleepSeconds
    /\ i' = i + 1
    /\ pc' = "thr_loop"
    /\ UNCHANGED <<benchmark, api_type, provider, error, prompt, runs, start_time,
                   elapsed, latency, latencies, throughputs, total_times, response,
                   lines, latency_stats, throughput_stats, total_time_stats, results,
                   requests, open, failed, qualified, tainted, stamp>>
    /\ UNCHANGED <<call, ret, heap>>
    /\ UNCHANGED batch_vars

\* ThrReturn with the two flattened averages of this call swapped
ThrReturn_swapped ==
    /\ pc = "thr_loop"
    /\ i >= runs
    /\ LET ts == _compute_stats(throughputs)
           tt == _compute_stats(total_times)
       IN  /\ throughput_stats' = ts
           /\ total_time_stats' = tt
           /\ results' = [model |-> S_model,
                          api_url |-> S_url,
                          api_type |-> api_type,
                          timestamp |-> now,
                          prompt_length |-> Len(prompt),
                          runs |-> runs,
                          first_token_latency |-> latency_stats.avg,
                          token_throughput |-> tt.avg,
                          total_time |-> ts.avg,
                          first_token_latency_stats |-> latency_stats,
                          token_throughput_stats |-> ts,
                          total_time_stats |-> tt]
    /\ pc' = "done"
    /\ UNCHANGED <<benchmark, api_type, provider, error, prompt, runs, i, now,
                   start_time, elapsed, latency, latencies, throughputs, total_times,
                   response, lines, latency_stats, requests, open, failed, qualified,
                   tainted, stamp, sleep_from, sleep_to>>
    /\ UNCHANGED <<call, ret, heap>>
    /\ UNCHANGED batch_vars

\* lines 151-157 and the rest of run_comprehensive_benchmark (lines 181-209)
ThrReturn ==
    /\ pc = "thr_loop"
    /\ i >= runs
    /\ LET ts == _compute_stats(throughputs)
           tt == _compute_stats(total_times)
       IN  /\ throughput_stats' = ts
           /\ total_time_stats' = tt
           /\ results' = [model |-> S_model,
                          api_url |-> S_url,
                          api_type |-> api_type,
                          timestamp |-> now,
                          prompt_length |-> Len(prompt),
                          runs |-> runs,
                          first_token_latency |-> latency_stats.avg,
                          token_throughput |-> ts.avg,
                          total_time |-> tt.avg,
                          first_token_latency_stats |-> latency_stats,
                          token_throughput_stats |-> ts,
                          total_time_stats |-> tt]
    /\ pc' = "done"
    /\ UNCHANGED <<benchmark, api_type, provider, error, prompt, runs, i, now,
                   start_time, elapsed, latency, latencies, throughputs, total_times,
                   response, lines, latency_stats, requests, open, failed, qualified,
                   tainted, stamp, sleep_from, sleep_to>>
    /\ UNCHANGED <<call, ret, heap>>
    /\ UNCHANGED batch_vars

\* ------------------------------------------------------------ specification
Next ==
    \/ \E tag \in Tags : Construct(tag)
    \/ \E p \in Prompts, n \in 0..MaxRuns : RunComprehensive(p, n)
    \/ LatIssue
    \/ \E d \in Ticks(MaxPostTick), status \in StatusCodes : LatPostReturn(d, status)
    \/ LatPostRaise
    \/ \E line \in StreamLines, d \in Ticks(MaxLineTick) : LatReadLine(line, d)
    \/ LatStreamEnd
    \/ LatIterRaise
    \/ LatClose
    \/ LatPrint
    \/ LatSleep
    \/ LatReturn
    \/ ThrIssue
    \/ \E d \in Ticks(MaxPostTick), status \in StatusCodes, body \in Bodies :
          ThrPostReturn(d, status, body)
    \/ ThrPostRaise
    \/ ThrParse
    \/ ThrSleep
    \/ ThrReturn

Spec == Init /\ [][Next]_vars

\* ------------------------------------------------------------------ claims
InLatencyRun == pc \in {"lat_iter", "lat_close", "lat_print", "lat_sleep"}

\* the line read k-th in the current run is a first-content event
Qualifies(k) == is_first_content_event(provider, lines[k].line) = Ok(TRUE)

\* the current run of the latency call has contributed a sample
Sampled == \E k \in 1..Len(qualified) : qualified[k].run = i

\* C1: a run of measure_first_token_latency whose stream ended without a
\* qualifying line raises no error, appends nothing to the latency series, and
\* the loop goes on (to the delay and the remaining runs); this is claimed of
\* every run, the first one of the call included.
C1_StreamEndWithoutContent ==
    [][(pc = "lat_print" /\ ~Sampled)
          => (pc' = "lat_sleep" /\ error' = NoError /\ latencies' = latencies)]_vars

\* C2: a non-2xx response is a run-level transport failure: the dimension
\* aborts on it, so no latency, total-time or throughput sample taken from such
\* a response is in any series.
C2_NoSampleFromNon2xx == tainted = {}

\* C3: when the HTTP call of a run raises, the error reaches the caller: the
\* failing request is the last one ever issued (no later run), no (dimension,
\* run) pair is requested twice (no retry), the failing dimension returns no
\* summary and run_comprehensive_benchmark produces no result record.
C3_TransportErrorPropagates ==
    failed # 0 =>
        /\ pc = "raised"
        /\ error.exc = "ConnectionError"
        /\ failed = Len(requests)
        /\ \A a, b \in 1..Len(requests) :
              (requests[a].stream = requests[b].stream /\ requests[a].run = requests[b].run)
                  => a = b
        /\ requests[failed].stream => latency_stats = None
        /\ throughput_stats = None
        /\ total_time_stats = None
        /\ results = None

\* the call of the second throughput run raised after the first run had
\* recorded its samples
C3_Witness ==
    /\ failed # 0
    /\ ~requests[failed].stream
    /\ requests[failed].run = 1
    /\ Len(total_times) = 1
    /\ Len(throughputs) = 1

\* C4: once measure_first_token_latency has returned, the raw list of its
\* summary is exactly the samples of the runs in which a qualifying line
\* arrived, in run order; the other runs add nothing (no zero).
C4_RawIsQualifyingRuns ==
    latency_stats # None =>
        /\ Len(latency_stats.raw) = Len(qualified)
        /\ \A k \in 1..Len(qualified) :
              /\ latency_stats.raw[k] = qualified[k].sample
              /\ qualified[k].run \in 0..(runs - 1)
        /\ \A k \in 1..(Len(qualified) - 1) : qualified[k].run < qualified[k + 1].run

\* two runs requested, only one of them found a qualifying line
C4_Witness ==
    /\ latency_stats # None
    /\ runs = 2
    /\ Len(latency_stats.raw) = 1

InThroughputCall == latency_stats # None /\ results = None

\* C5: in measure_token_throughput every run whose HTTP call completed has
\* recorded exactly one total-time sample, equal to its elapsed time, whether
\* the body then parses to a positive count, to zero, or fails to parse; the
\* returned total-time raw list has one entry per run and the throughput raw
\* list is never longer.
C5_TotalTimeAlwaysRecorded ==
    /\ pc \in {"thr_loop", "thr_post"} => Len(total_times) = i
    /\ pc \in {"thr_parse", "thr_sleep"} =>
          /\ Len(total_times) = i + 1
          /\ total_times[i + 1] = RInt(stamp - start_time)
    /\ (pc = "raised" /\ InThroughputCall /\ failed = 0) =>
          /\ Len(total_times) = i + 1
          /\ total_times[i + 1] = RInt(stamp - start_time)
    /\ Len(throughputs) <= Len(total_times)
    /\ total_time_stats # None =>
          /\ Len(total_time_stats.raw) = runs
          /\ Len(throughput_stats.raw) <= Len(total_time_stats.raw)

\* the call returned after two runs, one of which gave no throughput sample
C5_Witness ==
    /\ total_time_stats # None
    /\ runs = 2
    /\ Len(total_time_stats.raw) = 2
    /\ Len(throughput_stats.raw) = 1

\* C6: the step that parses the body of a completed run appends a throughput
\* sample exactly when the elapsed time and the parsed token count are both
\* positive, and the appended value times the elapsed time is the token count.
C6_ThroughputSample ==
    [][(pc = "thr_parse" /\ pc' = "thr_sleep") =>
          LET tokens == parse_token_count(provider, response.body).val
          IN  IF elapsed > 0 /\ tokens.v > 0
              THEN /\ Len(throughputs') = Len(throughputs) + 1
                   /\ SubSeq(throughputs', 1, Len(throughputs)) = throughputs
                   /\ RMul(throughputs'[Len(throughputs')], RInt(elapsed)) = RInt(tokens.v)
              ELSE throughputs' = throughputs]_vars

\* 100 tokens in 2 time units were recorded as 50
C6_Witness ==
    /\ pc = "thr_sleep"
    /\ elapsed = 2
    /\ parse_token_count(provider, response.body) = Ok(JInt(100))
    /\ throughputs # <<>>
    /\ throughputs[Len(throughputs)] = RInt(50)

\* C7: in a run of measure_first_token_latency only the last line read can be
\* a qualifying one (every earlier line was skipped, nothing is read after
\* it); the run has a sample exactly when that line qualifies, the sample is
\* the arrival time of that line minus the run's start time, and the run has
\* added at most one sample.
C7_FirstQualifyingLine ==
    InLatencyRun =>
        /\ \A k \in 1..(Len(lines) - 1) : ~Qualifies(k) /\ lines[k].at <= lines[k + 1].at
        /\ Sampled <=> (lines # <<>> /\ Qualifies(Len(lines)))
        /\ Sampled =>
              /\ latencies # <<>>
              /\ latencies[Len(latencies)] = RInt(lines[Len(lines)].at - start_time)
              /\ stamp = lines[Len(lines)].at
        /\ Cardinality({k \in 1..Len(qualified) : qualified[k].run = i}) <= 1
        /\ Len(latencies) = Len(qualified)
        /\ pc # "lat_iter" => (Sampled \/ \A k \in 1..Len(lines) : ~Qualifies(k))

\* a non-qualifying line was skipped and the next, later line gave the sample
C7_Witness ==
    /\ pc = "lat_sleep"
    /\ Len(lines) = 2
    /\ ~Qualifies(1)
    /\ Qualifies(2)
    /\ lines[1].at < lines[2].at
    /\ Sampled

\* C8: at most one response is open at any moment, and it is the one of the
\* request issued last: when a request is issued, every earlier response has
\* been fully received or closed.
C8_OneOpenResponse ==
    /\ Cardinality(open) <= 1
    /\ open \subseteq {Len(requests)}

\* the request after a streaming run that found no qualifying line is in flight
C8_Witness ==
    /\ Len(requests) = 3
    /\ open = {3}
    /\ Len(qualified) = 1
    /\ requests[2].stream

InRun == pc \in {"lat_post", "lat_iter", "lat_close", "lat_print", "lat_sleep",
                 "thr_post", "thr_parse", "thr_sleep"}

\* C9: every delay lasts exactly 1 time unit; it starts no earlier than the
\* sample timestamp of the run it follows and has ended when the start
\* timestamp of the next run is taken, so the sample of a run (its timestamp
\* minus its start) contains no delay.
C9_DelayOutsideSamples ==
    /\ sleep_from # -1 => sleep_to = sleep_from + 1
    /\ (InRun /\ sleep_to # -1) => sleep_to <= start_time
    /\ (InRun /\ stamp # -1) => start_time <= stamp
    /\ (pc \in {"lat_loop", "thr_loop", "done"} /\ sleep_from # -1) =>
          /\ stamp <= sleep_from
          /\ start_time <= sleep_from
          /\ sleep_to = now
    /\ (pc \in {"lat_loop", "thr_loop"} /\ i > 0) => sleep_from # -1

\* the second run of a dimension has its sample, taken after the delay
C9_Witness ==
    /\ pc = "lat_close"
    /\ i = 1
    /\ stamp > start_time
    /\ sleep_to = start_time
    /\ sleep_from >= 1

\* a and b are equal up to the case of their letters
SameFolded(a, b) ==
    /\ Len(a) = Len(b)
    /\ \A k \in 1..Len(a) :
          \/ a[k] = b[k]
          \/ \E j \in 1..Len(UpperChars) :
                {a[k], b[k]} = {UpperChars[j], LowerChars[j]}

\* C10: after construction the adapter is of the variant whose tag equals the
\* given tag up to case, if there is one; otherwise a ValueError whose message
\* contains the given tag and the three supported tags reached the caller and
\* neither an adapter nor a runner exists (and no request was issued).
C10_FactorySelection ==
    pc # "new" =>
        /\ provider = "OpenAIProvider" <=> SameFolded(api_type, S_openai)
        /\ provider = "ClaudeProvider" <=> SameFolded(api_type, S_claude)
        /\ provider = "AzureOpenAIProvider" <=> SameFolded(api_type, S_azure)
        /\ provider = "None" <=> error.exc = "ValueError"
        /\ provider = "None" =>
              /\ benchmark = "None"
              /\ pc = "raised"
              /\ requests = <<>>
              /\ Contains(error.msg, api_type)
              /\ \A k \in 1..Len(PROVIDERS_keys) : Contains(error.msg, PROVIDERS_keys[k])

\* an unregistered tag was refused
C10_Witness ==
    /\ api_type = S_invalid_type
    /\ error.exc = "ValueError"
    /\ provider = "None"

\* avg is 0 for an empty raw list and otherwise the arithmetic mean of raw
AvgOfRaw(stats) ==
    IF stats.raw = <<>> THEN stats.avg = RInt(0)
    ELSE RMul(stats.avg, RInt(Len(stats.raw))) = RSum(stats.raw)

\* C11: in every record returned by run_comprehensive_benchmark the three
\* top-level scalars equal the avg of the corresponding summary (which is 0 for
\* an empty series and the mean of its raw list otherwise), the summaries are
\* those of the three series, runs is the requested run count and prompt_length
\* the number of characters of the prompt.
C11_FlattenedAverages ==
    results # None =>
        /\ results.first_token_latency = results.first_token_latency_stats.avg
        /\ results.token_throughput = results.token_throughput_stats.avg
        /\ results.total_time = results.total_time_stats.avg
        /\ results.first_token_latency_stats.raw = latencies
        /\ results.token_throughput_stats.raw = throughputs
        /\ results.total_time_stats.raw = total_times
        /\ AvgOfRaw(results.first_token_latency_stats)
        /\ AvgOfRaw(results.token_throughput_stats)
        /\ AvgOfRaw(results.total_time_stats)
        /\ results.runs = runs
        /\ results.prompt_length = Cardinality(DOMAIN prompt)

\* a record whose throughput series is empty while its total-time series is not
C11_Witness ==
    /\ results # None
    /\ runs = 2
    /\ results.token_throughput_stats.raw = <<>>
    /\ results.token_throughput = RInt(0)
    /\ results.total_time_stats.raw # <<>>
    /\ results.total_time # RInt(0)

\* ------------------------------------------ the functions, called directly
\* the tests call _compute_stats and the provider methods on their own; this
\* second specification does the same over bounded inputs

\* longest sample series passed to _compute_stats
MaxSamples == 5

\* sample values are the whole numbers 0..MaxValue
MaxValue == 4

SampleValues == {RInt(v) : v \in 0..MaxValue}

\* longest series of the two values 0 and MaxValue only; from 11 samples on the
\* rank (n - 1) * 90 / 100 is a whole number
MaxLongSamples == 11

Series ==
    UNION {[1..n -> SampleValues] : n \in 0..MaxSamples}
    \cup UNION {[1..n -> {RInt(0), RInt(MaxValue)}] : n \in 0..MaxLongSamples}

\* {"choices": [{"message": {"content": null}}], "content": [{"text": null}]}
B_nullcontent == JObj([choices |-> JList(<<JObj([message |-> JObj([content |-> JNull])])>>),
                       content |-> JList(<<JObj([text |-> JNull])>>)])

\* response bodies that decode to a JSON mapping
JsonBodies == (Bodies \ {B_notjson}) \cup {B_nullcontent}

\* b'\t'
L_tab == <<"\t">>

\* b' data: {"type": "content_block_delta"} '
L_padded == <<" ", "data:", " ", T_delta, " ">>

FnLines == {L_empty, L_blank, L_tab, L_delta, L_padded, L_start, L_id, L_done,
            L_list, L_ping}

ProviderClasses == {PROVIDERS_class[k] : k \in DOMAIN PROVIDERS_class}

\* prompts and configured model names of direct build_chat_payload calls
FnPrompts == {<<>>, <<"h", "i">>, <<"s", "t", "r", "e", "a", "m">>}

FnModels == {S_model, <<"m", "o", "d", "e", "l">>}

\* the list object a name refers to
Ref(r) == [ref |-> r]

\* one direct call: the function, its arguments and, for _compute_stats, the
\* list object passed as data together with its contents at the time of the call
Calls ==
    {[fn |-> "_compute_stats", data |-> Ref(1), series |-> s] : s \in Series}
    \cup {[fn |-> "parse_content", provider |-> p, response_json |-> b] :
              p \in ProviderClasses, b \in JsonBodies}
    \cup {[fn |-> "parse_token_count", provider |-> p, response_json |-> b] :
              p \in ProviderClasses, b \in JsonBodies}
    \cup {[fn |-> "is_first_content_event", provider |-> p, line |-> l] :
              p \in ProviderClasses, l \in FnLines}
    \cup {[fn |-> "build_chat_payload", provider |-> p, model |-> m, prompt |-> q,
           stream |-> b] :
              p \in ProviderClasses, m \in FnModels, q \in FnPrompts, b \in BOOLEAN}

\* everything the benchmark run owns; a direct call touches none of it
bench_vars == <<benchmark, api_type, provider, error, prompt, runs, i, now, start_time,
                elapsed, latency, latencies, throughputs, total_times, response, lines,
                latency_stats, throughput_stats, total_time_stats, results, requests,
                open, failed, qualified, tainted, stamp, sleep_from, sleep_to>>

FnInit ==
    /\ pc = "fn_call"
    /\ call \in Calls
    /\ ret = NotReturned
    /\ heap = IF call.fn = "_compute_stats" THEN <<call.series>> ELSE <<>>
    /\ benchmark = "None"
    /\ api_type = <<>>
    /\ provider = "None"
    /\ error = NoError
    /\ prompt = <<>>
    /\ runs = 0
    /\ i = 0
    /\ now = 0
    /\ start_time = 0
    /\ elapsed = 0
    /\ latency = Unbound
    /\ latencies = <<>>
    /\ throughputs = <<>>
    /\ total_times = <<>>
    /\ response = NoResponse
    /\ lines = <<>>
    /\ latency_stats = None
    /\ throughput_stats = None
    /\ total_time_stats = None
    /\ results = None
    /\ requests = <<>>
    /\ open = {}
    /\ failed = 0
    /\ qualified = <<>>
    /\ tainted = {}
    /\ stamp = -1
    /\ sleep_from = -1
    /\ sleep_to = -1
    /\ apis = <<>>
    /\ api_index = 0
    /\ batch_results = <<>>
    /\ outcomes = <<>>
    /\ posted = {}

\* raw given as data itself, without the list(data) copy
compute_stats_objects_alias(h, data) ==
    IF h[data.ref] = <<>>
    THEN [heap |-> h,
          stats |-> [_compute_stats(<<>>) EXCEPT !.raw = data]]
    ELSE LET sorted_data == Ref(Len(h) + 1)
         IN  [heap |-> h \o <<Sorted(h[data.ref])>>,
              stats |-> [_compute_stats(h[data.ref]) EXCEPT !.raw = data]]

\* _compute_stats over list objects: sorted(data) and list(data) each build a
\* new list, the summary's raw refers to the latter, data itself is only read
compute_stats_objects(h, data) ==
    IF h[data.ref] = <<>>
    THEN [heap |-> Append(h, <<>>),
          stats |-> [_compute_stats(<<>>) EXCEPT !.raw = Ref(Len(h) + 1)]]
    ELSE LET sorted_data == Ref(Len(h) + 1)
             raw == Ref(Len(h) + 2)
         IN  [heap |-> h \o <<Sorted(h[data.ref]), h[data.ref]>>,
              stats |-> [_compute_stats(h[data.ref]) EXCEPT !.raw = raw]]

\* without the guard for the empty series: statistics.mean([]) raises
FnComputeStats_noguard ==
    /\ pc = "fn_call"
    /\ call.fn = "_compute_stats"
    /\ IF heap[call.data.ref] = <<>>
       THEN /\ heap' = heap
            /\ ret' = Raise("StatisticsError")
       ELSE LET out == compute_stats_objects(heap, call.data)
            IN  /\ heap' = out.heap
                /\ ret' = Ok(out.stats)
    /\ pc' = "fn_returned"
    /\ UNCHANGED call
    /\ UNCHANGED bench_vars
    /\ UNCHANGED batch_vars

\* stats = LLMAPIBenchmark._compute_stats(data)
FnComputeStats ==
    /\ pc = "fn_call"
    /\ call.fn = "_compute_stats"
    /\ LET out == compute_stats_objects(heap, call.data)
       IN  /\ heap' = out.heap
           /\ ret' = Ok(out.stats)
    /\ pc' = "fn_returned"
    /\ UNCHANGED call
    /\ UNCHANGED bench_vars
    /\ UNCHANGED batch_vars

\* data.append(x) by the caller once the summary is in hand
FnAppendToInput(x) ==
    /\ pc = "fn_returned"
    /\ call.fn = "_compute_stats"
    /\ heap' = [heap EXCEPT ![call.data.ref] = Append(@, x)]
    /\ pc' = "fn_appended"
    /\ UNCHANGED <<call, ret>>
    /\ UNCHANGED bench_vars
    /\ UNCHANGED batch_vars

\* provider.parse_content(response_json)
FnParseContent ==
    /\ pc = "fn_call"
    /\ call.fn = "parse_content"
    /\ ret' = parse_content(call.provider, call.response_json)
    /\ pc' = "fn_returned"
    /\ UNCHANGED <<call, heap>>
    /\ UNCHANGED bench_vars
    /\ UNCHANGED batch_vars

\* provider.parse_token_count(response_json)
FnParseTokenCount ==
    /\ pc = "fn_call"
    /\ call.fn = "parse_token_count"
    /\ ret' = parse_token_count(call.provider, call.response_json)
    /\ pc' = "fn_returned"
    /\ UNCHANGED <<call, heap>>
    /\ UNCHANGED bench_vars
    /\ UNCHANGED batch_vars

\* provider.is_first_content_event(line)
FnIsFirstContentEvent ==
    /\ pc = "fn_call"
    /\ call.fn = "is_first_content_event"
    /\ ret' = is_first_content_event(call.provider, call.line)
    /\ pc' = "fn_returned"
    /\ UNCHANGED <<call, heap>>
    /\ UNCHANGED bench_vars
    /\ UNCHANGED batch_vars

\* provider.build_chat_payload(prompt, stream), self.model being call.model
FnBuildChatPayload ==
    /\ pc = "fn_call"
    /\ call.fn = "build_chat_payload"
    /\ ret' = Ok(build_chat_payload(call.provider, call.model, call.prompt, call.stream))
    /\ pc' = "fn_returned"
    /\ UNCHANGED <<call, heap>>
    /\ UNCHANGED bench_vars
    /\ UNCHANGED batch_vars

FnNext ==
    \/ FnComputeStats
    \/ \E x \in SampleValues : FnAppendToInput(x)
    \/ FnParseContent
    \/ FnParseTokenCount
    \/ FnIsFirstContentEvent
    \/ FnBuildChatPayload

SpecFn == FnInit /\ [][FnNext]_vars

\* a direct call that has returned or raised
Returned(fn) == call.fn = fn /\ pc \in {"fn_returned", "fn_appended"}

\* ------------------------------------------------- claims on the providers

\* C12: parse_content and parse_token_count never raise for a decoded JSON
\* mapping: whatever is missing, empty or null in it, parse_content returns a
\* string and parse_token_count a non-negative integer.
C12_ParsersNeverRaise ==
    /\ Returned("parse_content") => ret.ok /\ ret.val.t = "str"
    /\ Returned("parse_token_count") => ret.ok /\ ret.val.t = "int" /\ ret.val.v >= 0

\* the line, surrounding whitespace aside, is data: followed by a JSON object
\* whose type is content_block_delta
IsContentBlockDelta(line) ==
    LET s == Strip(line)
    IN  /\ s # <<>>
        /\ Head(s) = "data:"
        /\ Strip(Tail(s)) = <<T_delta>>

\* C13: the Claude is_first_content_event returns true for a data: line whose
\* JSON has type content_block_delta and returns false, without raising, for
\* every other line, a data: line carrying a JSON list included.
C13_ClaudeFirstContentEvent ==
    (Returned("is_first_content_event") /\ call.provider = "ClaudeProvider")
        => ret = Ok(IsContentBlockDelta(call.line))

\* every byte of the line is whitespace (the empty line included)
IsBlank(line) == \A k \in 1..Len(line) : line[k] \in {" ", "\t"}

\* C14: is_first_content_event of every variant returns false for an empty line
\* and for a line of whitespace only; the OpenAI and Azure variants return true
\* for every other line.
C14_BlankLinesNeverQualify ==
    Returned("is_first_content_event") =>
        /\ IsBlank(call.line) => ret = Ok(FALSE)
        /\ (call.provider \in {"OpenAIProvider", "AzureOpenAIProvider"}
                /\ ~IsBlank(call.line)) => ret = Ok(TRUE)

\* the OpenAI variant has answered false for a line of two spaces
C14_Witness ==
    /\ Returned("is_first_content_event")
    /\ call.provider = "OpenAIProvider"
    /\ call.line = L_blank
    /\ ret = Ok(FALSE)

\* the vendor's count under usage, or no count when usage or the key is missing
\* or usage is no mapping
HasCount(body, key) ==
    /\ "usage" \in DOMAIN body.v
    /\ body.v.usage.t = "obj"
    /\ key \in DOMAIN body.v.usage.v

\* the number of whitespace-separated segments of the parsed content of a body,
\* the content of a body without one being the empty string
Segments(p, body) ==
    LET content == parse_content(p, body)
    IN  IF content.ok /\ content.val.t = "str" THEN WordCount(content.val.v) ELSE 0

\* C15: the OpenAI and Azure parse_token_count return the vendor's
\* completion-token count when it is present and not zero and the number of
\* whitespace-separated segments of the parsed content when it is zero or
\* absent; the Claude one returns the vendor's output-token count, 0 when
\* absent, whatever the content.
C15_TokenCountFallback ==
    Returned("parse_token_count") =>
        LET body == call.response_json
        IN  IF call.provider = "ClaudeProvider"
            THEN IF HasCount(body, "output_tokens")
                 THEN ret = Ok(body.v.usage.v.output_tokens)
                 ELSE ret = Ok(JInt(0))
            ELSE IF HasCount(body, "completion_tokens")
                        /\ body.v.usage.v.completion_tokens # JInt(0)
                 THEN ret = Ok(body.v.usage.v.completion_tokens)
                 ELSE ret = Ok(JInt(Segments(call.provider, body)))

\* ------------------------------------------------ claims on _compute_stats

\* the values of a series
Elements(series) == {series[k] : k \in 1..Len(series)}

\* C16: for every non-empty series the summary's min and max are its smallest
\* and largest element, and median and avg both lie between them.
C16_Ordering ==
    (Returned("_compute_stats") /\ call.series # <<>>) =>
        LET stats == ret.val
        IN  /\ stats.min \in Elements(call.series)
            /\ stats.max \in Elements(call.series)
            /\ \A x \in Elements(call.series) : RLe(stats.min, x) /\ RLe(x, stats.max)
            /\ RLe(stats.min, stats.median) /\ RLe(stats.median, stats.max)
            /\ RLe(stats.min, stats.avg) /\ RLe(stats.avg, stats.max)

\* a summary whose avg and median differ and lie strictly inside min..max
C16_Witness ==
    /\ Returned("_compute_stats")
    /\ Len(call.series) >= 3
    /\ RLt(ret.val.min, ret.val.avg) /\ RLt(ret.val.avg, ret.val.median)
    /\ RLt(ret.val.median, ret.val.max)

\* the value at rank (n - 1) * p / 100 of an ascending series, indices from 0:
\* the element itself at a whole rank, otherwise the two neighbours weighted by
\* their distance to the rank (in hundredths)
Interpolated(sorted, p) ==
    LET r == (Len(sorted) - 1) * p
        f == r \div 100
        part == r % 100
    IN  IF part = 0 THEN sorted[f + 1]
        ELSE RAdd(RMul(sorted[f + 1], Rat(100 - part, 100)),
                  RMul(sorted[f + 2], Rat(part, 100)))

\* C17: for a series of at least two samples p90 and p99 are the linear
\* interpolation between the order statistics around rank (n - 1) * p / 100.
C17_PercentileInterpolation ==
    (Returned("_compute_stats") /\ Len(call.series) >= 2) =>
        /\ ret.val.p90 = Interpolated(Sorted(call.series), 90)
        /\ ret.val.p99 = Interpolated(Sorted(call.series), 99)

\* three distinct samples out of order: both percentiles fall strictly between
\* the two largest
C17_Witness ==
    /\ Returned("_compute_stats")
    /\ call.series = <<RInt(3), RInt(0), RInt(1)>>
    /\ ret.val.p90 = Rat(13, 5)
    /\ ret.val.p99 = Rat(74, 25)

\* C18: on the empty series _compute_stats raises nothing and returns avg, min,
\* max, median, p90, p99 and std_dev all 0 with an empty raw list.
C18_EmptySeries ==
    (Returned("_compute_stats") /\ call.series = <<>>) =>
        /\ ret.ok
        /\ \A field \in {"avg", "min", "max", "median", "p90", "p99", "std_dev"} :
               ret.val[field] = RInt(0)
        /\ heap[ret.val.raw.ref] = <<>>

\* the call on the empty series has returned
C18_Witness ==
    /\ Returned("_compute_stats")
    /\ call.series = <<>>
    /\ ret.ok
    /\ DOMAIN ret.val = {"avg", "min", "max", "median", "p90", "p99", "std_dev", "raw"}

\* C19: on a one-element series [x] avg, min, max, median, p90 and p99 are all
\* x and std_dev is 0.
C19_SingleSample ==
    (Returned("_compute_stats") /\ Len(call.series) = 1) =>
        /\ \A field \in {"avg", "min", "max", "median", "p90", "p99"} :
               ret.val[field] = call.series[1]
        /\ ret.val.std_dev = RInt(0)

\* the call on a single non-zero sample has returned
C19_Witness ==
    /\ Returned("_compute_stats")
    /\ call.series = <<RInt(MaxValue)>>
    /\ ret.val.avg = RInt(MaxValue)

\* C20: _compute_stats leaves its input list as it was, raw is another list
\* holding the samples in their original order, and an append to the input
\* after the call changes neither raw nor the rest of the summary.
C20_InputUntouched ==
    Returned("_compute_stats") =>
        /\ pc = "fn_returned" => heap[call.data.ref] = call.series
        /\ pc = "fn_appended" =>
               /\ Len(heap[call.data.ref]) = Len(call.series) + 1
               /\ SubSeq(heap[call.data.ref], 1, Len(call.series)) = call.series
        /\ ret.val.raw # call.data
        /\ heap[ret.val.raw.ref] = call.series
        /\ ret.val = [_compute_stats(call.series) EXCEPT !.raw = ret.val.raw]

\* after an append to an unsorted input, raw still holds the original samples
C20_Witness ==
    /\ pc = "fn_appended"
    /\ call.fn = "_compute_stats"
    /\ call.series = <<RInt(2), RInt(0), RInt(1)>>
    /\ heap[call.data.ref] = <<RInt(2), RInt(0), RInt(1), RInt(3)>>
    /\ heap[ret.val.raw.ref] = <<RInt(2), RInt(0), RInt(1)>>

\* ---------------------------------------------- claims on build_chat_payload

\* C21: the payload has a stream key exactly when the variant is OpenAI or Azure
\* or the stream argument is true; OpenAI and Azure carry the argument's value,
\* Claude carries true when streaming and no such key otherwise, and Claude
\* always carries max_tokens = 1024.
C21_StreamKey ==
    Returned("build_chat_payload") =>
        LET payload == ret.val
        IN  /\ ret.ok
            /\ "stream" \in DOMAIN payload
                   <=> (call.provider \in {"OpenAIProvider", "AzureOpenAIProvider"}
                            \/ call.stream)
            /\ "stream" \in DOMAIN payload => payload.stream = call.stream
            /\ call.provider = "ClaudeProvider" =>
                   /\ "max_tokens" \in DOMAIN payload
                   /\ payload.max_tokens = 1024

\* a Claude payload built without streaming: no stream key, max_tokens 1024
C21_Witness ==
    /\ Returned("build_chat_payload")
    /\ call.provider = "ClaudeProvider"
    /\ ~call.stream
    /\ DOMAIN ret.val = {"model", "max_tokens", "messages"}

\* C22: whatever the prompt and the stream flag, the Azure payload has no model
\* field and the OpenAI payload has one holding the configured model name.
C22_ModelField ==
    Returned("build_chat_payload") =>
        /\ call.provider = "AzureOpenAIProvider" => "model" \notin DOMAIN ret.val
        /\ call.provider = "OpenAIProvider" =>
               /\ "model" \in DOMAIN ret.val
               /\ ret.val.model = call.model

\* an Azure payload built for a prompt that itself spells a key name
C22_Witness ==
    /\ Returned("build_chat_payload")
    /\ call.provider = "AzureOpenAIProvider"
    /\ call.prompt = <<"s", "t", "r", "e", "a", "m">>
    /\ DOMAIN ret.val = {"messages", "stream"}

\* ----------------------------------------- claims on the order of requests

\* the payload of a request asks for streaming
AsksStream(request) ==
    "stream" \in DOMAIN request.payload /\ request.payload.stream

\* C23: every streaming request is issued before every non-streaming one, a
\* non-streaming request is issued only once the latency summary is there, each
\* request is sent the way its payload was built, and a benchmark that came to
\* its end has issued exactly runs streaming requests followed by exactly runs
\* non-streaming ones.
C23_StreamingFirst ==
    /\ \A k \in DOMAIN requests :
           /\ AsksStream(requests[k]) <=> requests[k].stream
           /\ ~requests[k].stream =>
                  /\ latency_stats # None
                  /\ \A j \in DOMAIN requests : requests[j].stream => j < k
    /\ results # None =>
           /\ Len(requests) = 2 * runs
           /\ \A k \in 1..runs : requests[k].stream /\ requests[k].run = k - 1
           /\ \A k \in (runs + 1)..(2 * runs) :
                  ~requests[k].stream /\ requests[k].run = k - runs - 1

\* a two-run benchmark at its end, four requests issued
C23_Witness ==
    /\ results # None
    /\ runs = 2
    /\ Len(requests) = 4
    /\ requests[2].stream
    /\ ~requests[3].stream

ZeroSummary ==
    [avg |-> RInt(0), min |-> RInt(0), max |-> RInt(0), median |-> RInt(0),
     p90 |-> RInt(0), p99 |-> RInt(0), std_dev |-> RInt(0), raw |-> <<>>]

\* C25: a benchmark of 0 runs issues no request, takes no delay and raises
\* nothing; the summary of each dimension is all zero with an empty raw list
\* and the three averages of the record are 0.
C25_ZeroRuns ==
    (runs = 0 /\ benchmark # "None") =>
        /\ requests = <<>>
        /\ sleep_from = -1 /\ sleep_to = -1
        /\ error = NoError
        /\ pc \in {"ready", "lat_loop", "thr_loop", "done"}
        /\ pc \in {"thr_loop", "done"} => latency_stats = ZeroSummary
        /\ pc = "done" =>
               /\ throughput_stats = ZeroSummary
               /\ total_time_stats = ZeroSummary
               /\ results.first_token_latency = RInt(0)
               /\ results.token_throughput = RInt(0)
               /\ results.total_time = RInt(0)

\* a benchmark of 0 runs at its end
C25_Witness ==
    /\ pc = "done"
    /\ runs = 0
    /\ results # None
    /\ results.runs = 0
    /\ requests = <<>>

\* ------------------------------------------- BatchBenchmark.run_batch_tests
\* the batch runner over a bounded list of API configurations; the benchmark of
\* one configuration is taken as a call that returns its record or raises

\* longest list of API configurations
MaxApis == 3

\* general_config.get("runs", 3)
BatchRuns == 3

\* one [[apis]] table: JNull stands for a key the table does not have
ApiConfigs ==
    [url : {JNull, JStr(<<>>), JStr(S_url)},
     model : {JNull, JStr(S_model)},
     type : {JNull, JStr(S_claude), JStr(S_invalid_type)}]

ApiLists == UNION {[1..n -> ApiConfigs] : n \in 0..MaxApis}

\* api_config.get("name", f"API_{i+1}") for a table without a name
DefaultName(idx) == <<"API_", idx>>

\* api_config.get("type", "openai")
TypeOf(api_config) ==
    IF api_config.type = JNull THEN S_openai ELSE api_config.type.v

\* if not url or not model
Incomplete(api_config) == ~Truthy(api_config.url) \/ ~Truthy(api_config.model)

\* how run_comprehensive_benchmark can end: with its record, or with an
\* exception of the transport or of the runner itself
RunOutcomes == {"returned", "ConnectionError", "UnboundLocalError"}

\* everything run_batch_tests leaves alone
batch_frame == <<i, now, start_time, elapsed, latency, latencies, throughputs,
                 total_times, response, lines, latency_stats, throughput_stats,
                 total_time_stats, requests, open, failed, qualified, tainted, stamp,
                 sleep_from, sleep_to, call, ret, heap>>

BatchInit ==
    /\ pc = "batch_start"
    /\ apis \in ApiLists
    /\ api_index = 0
    /\ batch_results = <<>>
    /\ outcomes = <<>>
    /\ posted = {}
    /\ benchmark = "None"
    /\ api_type = <<>>
    /\ provider = "None"
    /\ error = NoError
    /\ prompt = <<>>
    /\ runs = 0
    /\ i = 0
    /\ now = 0
    /\ start_time = 0
    /\ elapsed = 0
    /\ latency = Unbound
    /\ latencies = <<>>
    /\ throughputs = <<>>
    /\ total_times = <<>>
    /\ response = NoResponse
    /\ lines = <<>>
    /\ latency_stats = None
    /\ throughput_stats = None
    /\ total_time_stats = None
    /\ results = None
    /\ requests = <<>>
    /\ open = {}
    /\ failed = 0
    /\ qualified = <<>>
    /\ tainted = {}
    /\ stamp = -1
    /\ sleep_from = -1
    /\ sleep_to = -1
    /\ call = NoCall
    /\ ret = NotReturned
    /\ heap = <<>>

\* lines 59-64: no configuration at all is an error of the whole batch
BatchStart ==
    /\ pc = "batch_start"
    /\ IF apis = <<>>
       THEN /\ error' = [exc |-> "ValueError"]
            /\ pc' = "raised"
       ELSE /\ error' = error
            /\ pc' = "batch_loop"
    /\ UNCHANGED <<benchmark, api_type, provider, prompt, runs, results>>
    /\ UNCHANGED batch_vars
    /\ UNCHANGED batch_frame

\* lines 72-74: a configuration without url or model is skipped
BatchSkip ==
    /\ pc = "batch_loop"
    /\ api_index < Len(apis)
    /\ Incomplete(apis[api_index + 1])
    /\ outcomes' = Append(outcomes, [api |-> api_index + 1, kind |-> "skipped"])
    /\ api_index' = api_index + 1
    /\ UNCHANGED <<pc, benchmark, api_type, provider, error, prompt, runs, results>>
    /\ UNCHANGED <<apis, batch_results, posted>>
    /\ UNCHANGED batch_frame

\* line 81: benchmark = LLMAPIBenchmark(url, key, model, api_type), inside the try
BatchConstruct ==
    /\ pc = "batch_loop"
    /\ api_index < Len(apis)
    /\ ~Incomplete(apis[api_index + 1])
    /\ api_type' = TypeOf(apis[api_index + 1])
    /\ LET r == create_provider(TypeOf(apis[api_index + 1]))
       IN  IF r.ok
           THEN /\ benchmark' = "LLMAPIBenchmark"
                /\ provider' = r.val
                /\ error' = error
                /\ pc' = "batch_run"
           ELSE /\ error' = [exc |-> r.exc, msg |-> r.msg]
                /\ pc' = "batch_except"
                /\ UNCHANGED <<benchmark, provider>>
    /\ UNCHANGED <<prompt, runs, results>>
    /\ UNCHANGED batch_vars
    /\ UNCHANGED batch_frame

\* line 82: result = benchmark.run_comprehensive_benchmark(prompt, runs)
BatchRun(outcome, p) ==
    /\ pc = "batch_run"
    /\ prompt' = p
    /\ runs' = BatchRuns
    /\ posted' = posted \cup {api_index + 1}
    /\ IF outcome = "returned"
       THEN /\ results' = [model |-> apis[api_index + 1].model.v,
                           api_url |-> apis[api_index + 1].url.v,
                           api_type |-> api_type,
                           prompt_length |-> Len(p),
                           runs |-> BatchRuns]
            /\ error' = error
            /\ pc' = "batch_save"
       ELSE /\ error' = [exc |-> outcome]
            /\ pc' = "batch_except"
            /\ UNCHANGED results
    /\ UNCHANGED <<benchmark, api_type, provider>>
    /\ UNCHANGED <<apis, api_index, batch_results, outcomes>>
    /\ UNCHANGED batch_frame

\* lines 85-94: name and test_time added, the record written to its file and
\* appended to results; the write can fail
BatchSave(written) ==
    /\ pc = "batch_save"
    /\ IF written
       THEN /\ batch_results' = Append(batch_results,
                                       [result |-> results,
                                        name |-> DefaultName(api_index + 1)])
            /\ outcomes' = Append(outcomes, [api |-> api_index + 1, kind |-> "completed"])
            /\ api_index' = api_index + 1
            /\ error' = error
            /\ pc' = "batch_loop"
       ELSE /\ error' = [exc |-> "OSError"]
            /\ pc' = "batch_except"
            /\ UNCHANGED <<batch_results, outcomes, api_index>>
    /\ UNCHANGED <<benchmark, api_type, provider, prompt, runs, results>>
    /\ UNCHANGED <<apis, posted>>
    /\ UNCHANGED batch_frame

\* the handler letting the exception through to the caller
BatchExcept_reraise ==
    /\ pc = "batch_except"
    /\ outcomes' = Append(outcomes, [api |-> api_index + 1, kind |-> "failed"])
    /\ pc' = "raised"
    /\ UNCHANGED <<benchmark, api_type, provider, error, prompt, runs, results>>
    /\ UNCHANGED <<apis, api_index, batch_results, posted>>
    /\ UNCHANGED batch_frame

\* lines 96-97: except Exception: the error is printed, the loop goes on
BatchExcept ==
    /\ pc = "batch_except"
    /\ outcomes' = Append(outcomes, [api |-> api_index + 1, kind |-> "failed"])
    /\ api_index' = api_index + 1
    /\ error' = NoError
    /\ pc' = "batch_loop"
    /\ UNCHANGED <<benchmark, api_type, provider, prompt, runs, results>>
    /\ UNCHANGED <<apis, batch_results, posted>>
    /\ UNCHANGED batch_frame

\* lines 99-100: self.results = results; return results
BatchReturn ==
    /\ pc = "batch_loop"
    /\ api_index >= Len(apis)
    /\ pc' = "batch_returned"
    /\ UNCHANGED <<benchmark, api_type, provider, error, prompt, runs, results>>
    /\ UNCHANGED batch_vars
    /\ UNCHANGED batch_frame

BatchNext ==
    \/ BatchStart
    \/ BatchSkip
    \/ BatchConstruct
    \/ \E outcome \in RunOutcomes, p \in Prompts : BatchRun(outcome, p)
    \/ \E written \in BOOLEAN : BatchSave(written)
    \/ BatchExcept
    \/ BatchReturn

SpecBatch == BatchInit /\ [][BatchNext]_vars

\* ------------------------------------------------- claims on the batch runner

\* the indexes of the outcomes of one kind, in handling order
RECURSIVE OfKind(_, _)
OfKind(log, kind) ==
    IF log = <<>> THEN <<>>
    ELSE (IF Head(log).kind = kind THEN <<Head(log).api>> ELSE <<>>)
             \o OfKind(Tail(log), kind)

\* C26: run_batch_tests handles the configurations one at a time in
\* configuration order; a failure of one benchmark (unsupported type, transport
\* error, any other exception) does not reach the caller and every later
\* configuration is still handled; the returned list holds exactly the results
\* of the configurations that completed, in that order; a configuration without
\* url or model is skipped and no benchmark is run for it.
C26_BatchIsolation ==
    /\ \A k \in DOMAIN outcomes : outcomes[k].api = k
    /\ Len(outcomes) = api_index
    /\ pc = "raised" => apis = <<>>
    /\ pc = "batch_returned" => Len(outcomes) = Len(apis)
    /\ Len(batch_results) = Len(OfKind(outcomes, "completed"))
    /\ \A k \in DOMAIN batch_results :
           LET idx == OfKind(outcomes, "completed")[k]
           IN  /\ batch_results[k].name = DefaultName(idx)
               /\ batch_results[k].result.api_url = apis[idx].url.v
               /\ batch_results[k].result.api_type = TypeOf(apis[idx])
    /\ \A k \in DOMAIN outcomes :
           (apis[k].url \in {JNull, JStr(<<>>)} \/ apis[k].model = JNull)
               <=> outcomes[k].kind = "skipped"
    /\ \A k \in DOMAIN apis :
           (apis[k].url \in {JNull, JStr(<<>>)} \/ apis[k].model = JNull) => k \notin posted

\* a batch of three that returned: the first benchmark failed, the second
\* configuration was skipped, the third completed and is the only result
C26_Witness ==
    /\ pc = "batch_returned"
    /\ Len(apis) = 3
    /\ outcomes[1].kind = "failed"
    /\ outcomes[2].kind = "skipped"
    /\ outcomes[3].kind = "completed"
    /\ Len(batch_results) = 1
    /\ batch_results[1].name = DefaultName(3)
    /\ posted = {1, 3}

\* ---------------------------------------- binary floating point, as executed
\* The samples are Python floats (IEEE-754 binary64) and _compute_stats works
\* on them with rounded operations. A float, here never negative, is
\* [m |-> mantissa, e |-> exponent], standing for m * 2^e with m odd (or m = 0
\* and e = 0). Mantissas and the intermediate products exceed 32-bit integers,
\* so a natural number is a sequence of limbs below Limb, least significant
\* first, without leading zero limbs.

\* limbs hold 15 bits
Limb == 32768

\* bits of the significand of a binary64
Precision == 53

RECURSIVE BigOf(_)
BigOf(n) == IF n = 0 THEN <<>> ELSE <<n % Limb>> \o BigOf(n \div Limb)

RECURSIVE BigToInt(_)
BigToInt(a) == IF a = <<>> THEN 0 ELSE Head(a) + Limb * BigToInt(Tail(a))

RECURSIVE Trim(_)
Trim(a) ==
    IF a = <<>> \/ a[Len(a)] # 0 THEN a ELSE Trim(SubSeq(a, 1, Len(a) - 1))

RECURSIVE BigAddCarry(_, _, _)
BigAddCarry(a, b, carry) ==
    IF a = <<>> /\ b = <<>> THEN (IF carry = 0 THEN <<>> ELSE <<carry>>)
    ELSE LET x == IF a = <<>> THEN 0 ELSE Head(a)
             y == IF b = <<>> THEN 0 ELSE Head(b)
             t == x + y + carry
         IN  <<t % Limb>> \o BigAddCarry(IF a = <<>> THEN <<>> ELSE Tail(a),
                                          IF b = <<>> THEN <<>> ELSE Tail(b),
                                          t \div Limb)

BigAdd(a, b) == BigAddCarry(a, b, 0)

\* a - b for a >= b
RECURSIVE BigSubBorrow(_, _, _)
BigSubBorrow(a, b, borrow) ==
    IF a = <<>> THEN <<>>
    ELSE LET y == IF b = <<>> THEN 0 ELSE Head(b)
             t == Head(a) - y - borrow
         IN  <<IF t < 0 THEN t + Limb ELSE t>>
                 \o BigSubBorrow(Tail(a), IF b = <<>> THEN <<>> ELSE Tail(b),
                                 IF t < 0 THEN 1 ELSE 0)

BigSub(a, b) == Trim(BigSubBorrow(a, b, 0))

BigLt(a, b) ==
    IF Len(a) # Len(b) THEN Len(a) < Len(b)
    ELSE \E k \in 1..Len(a) :
             /\ a[k] < b[k]
             /\ \A j \in (k + 1)..Len(a) : a[j] = b[j]

\* a * d for one limb d
RECURSIVE BigMulLimb(_, _, _)
BigMulLimb(a, d, carry) ==
    IF a = <<>> THEN (IF carry = 0 THEN <<>> ELSE <<carry>>)
    ELSE LET t == Head(a) * d + carry
         IN  <<t % Limb>> \o BigMulLimb(Tail(a), d, t \div Limb)

RECURSIVE BigMul(_, _)
BigMul(a, b) ==
    IF a = <<>> \/ b = <<>> THEN <<>>
    ELSE LET upper == BigMul(a, Tail(b))
         IN  Trim(BigAdd(BigMulLimb(a, Head(b), 0),
                         IF upper = <<>> THEN <<>> ELSE <<0>> \o upper))

\* quotient and remainder of a by one limb d
RECURSIVE BigDivLimb(_, _)
BigDivLimb(a, d) ==
    IF a = <<>> THEN [q |-> <<>>, r |-> 0]
    ELSE LET upper == BigDivLimb(Tail(a), d)
             t == upper.r * Limb + Head(a)
         IN  [q |-> <<t \div d>> \o upper.q, r |-> t % d]

RECURSIVE Pow2(_)
Pow2(s) == IF s = 0 THEN 1 ELSE 2 * Pow2(s - 1)

\* a * 2^s
ShiftLeft(a, s) ==
    IF a = <<>> THEN <<>>
    ELSE [k \in 1..(s \div 15) |-> 0] \o BigMulLimb(a, Pow2(s % 15), 0)

\* a \div 2^s
ShiftRight(a, s) ==
    IF s \div 15 >= Len(a) THEN <<>>
    ELSE Trim(BigDivLimb(SubSeq(a, (s \div 15) + 1, Len(a)), Pow2(s % 15)).q)

RECURSIVE BitLength(_)
BitLength(n) == IF n = 0 THEN 0 ELSE 1 + BitLength(n \div 2)

\* number of bits of a
Bits(a) == IF a = <<>> THEN 0 ELSE 15 * (Len(a) - 1) + BitLength(a[Len(a)])

\* bit j of a, bit 0 the least significant
Bit(a, j) ==
    IF j \div 15 >= Len(a) THEN 0
    ELSE (a[(j \div 15) + 1] \div Pow2(j % 15)) % 2

\* number of 0 bits below the lowest 1 bit of a # 0
RECURSIVE TrailingZeros(_, _)
TrailingZeros(a, j) == IF Bit(a, j) = 1 THEN j ELSE TrailingZeros(a, j + 1)

\* the float m * 2^e, m of at most Precision bits
Normal(m, e) ==
    IF m = <<>> THEN [m |-> <<>>, e |-> 0]
    ELSE LET z == TrailingZeros(m, 0)
         IN  [m |-> ShiftRight(m, z), e |-> e + z]

\* round to nearest, ties to even: of the s bits dropped, the highest is the
\* guard bit and the others are sticky, as is an inexact m
Round(m, e, inexact) ==
    LET s == Bits(m) - Precision
    IN  IF s <= 0 THEN Normal(m, e)
        ELSE LET kept == ShiftRight(m, s)
                 guard == Bit(m, s - 1) = 1
                 sticky == inexact \/ \E j \in 0..(s - 2) : Bit(m, j) = 1
             IN  IF guard /\ (sticky \/ Bit(kept, 0) = 1)
                 THEN Normal(BigAdd(kept, <<1>>), e + s)
                 ELSE Normal(kept, e + s)

\* float(n) of a small natural
FloatOfInt(n) == Normal(BigOf(n), 0)

\* both mantissas brought to the smaller exponent
Aligned(x, y) ==
    LET e == IF x.e < y.e THEN x.e ELSE y.e
    IN  [x |-> ShiftLeft(x.m, x.e - e), y |-> ShiftLeft(y.m, y.e - e), e |-> e]

\* x + y
FAdd(x, y) == LET a == Aligned(x, y) IN Round(BigAdd(a.x, a.y), a.e, FALSE)

\* x - y for x >= y
FSub(x, y) == LET a == Aligned(x, y) IN Round(BigSub(a.x, a.y), a.e, FALSE)

\* x * y
FMul(x, y) == Round(BigMul(x.m, y.m), x.e + y.e, FALSE)

\* x / d for a natural d below Limb: the exact quotient rounded once; the
\* dividend is first scaled by 2^70 so that the quotient keeps more than
\* Precision bits
FDivInt(x, d) ==
    LET qr == BigDivLimb(ShiftLeft(x.m, 70), d)
    IN  Round(Trim(qr.q), x.e - 70, qr.r # 0)

FLt(x, y) == LET a == Aligned(x, y) IN BigLt(a.x, a.y)

\* math.floor(x)
FFloor(x) ==
    IF x.e >= 0 THEN BigToInt(ShiftLeft(x.m, x.e)) ELSE BigToInt(ShiftRight(x.m, -x.e))

\* math.ceil(x)
FCeil(x) == IF FloatOfInt(FFloor(x)) = x THEN FFloor(x) ELSE FFloor(x) + 1

\* the sum of a series without any rounding, as [m, e]
RECURSIVE ExactSum(_)
ExactSum(data) ==
    IF data = <<>> THEN [m |-> <<>>, e |-> 0]
    ELSE LET a == Aligned(Head(data), ExactSum(Tail(data)))
         IN  [m |-> BigAdd(a.x, a.y), e |-> a.e]

\* statistics.mean: the exact sum divided by n, rounded once
FMean(data) == FDivInt(ExactSum(data), Len(data))

RECURSIVE FInsert(_, _)
FInsert(x, sorted) ==
    IF sorted = <<>> THEN <<x>>
    ELSE IF FLt(x, Head(sorted)) THEN <<x>> \o sorted
    ELSE <<Head(sorted)>> \o FInsert(x, Tail(sorted))

\* sorted(data)
RECURSIVE FSorted(_)
FSorted(data) ==
    IF data = <<>> THEN <<>>
    ELSE FInsert(data[Len(data)], FSorted(SubSeq(data, 1, Len(data) - 1)))

\* statistics.median: the middle sample, or (a + b) / 2 of the two middle ones
FMedian(data) ==
    LET s == FSorted(data)
        n == Len(data)
    IN  IF n % 2 = 1 THEN s[(n \div 2) + 1]
        ELSE FDivInt(FAdd(s[n \div 2], s[(n \div 2) + 1]), 2)

\* the nested percentile(pct), every operation rounded as the code performs it
Fpercentile(sorted_data, pct) ==
    LET n == Len(sorted_data)
        k == FMul(FloatOfInt(n - 1), FDivInt(FloatOfInt(pct), 100))
        f == FFloor(k)
        c == FCeil(k)
    IN  IF n = 1 THEN sorted_data[1]
        ELSE IF f = c THEN sorted_data[f + 1]
        ELSE FAdd(FMul(sorted_data[f + 1], FSub(FloatOfInt(c), k)),
                  FMul(sorted_data[c + 1], FSub(k, FloatOfInt(f))))

\* _compute_stats on floats; std_dev is carried as the series it is the
\* sample standard deviation of
F_compute_stats(data) ==
    IF data = <<>>
    THEN [avg |-> FloatOfInt(0), min |-> FloatOfInt(0), max |-> FloatOfInt(0),
          median |-> FloatOfInt(0), p90 |-> FloatOfInt(0), p99 |-> FloatOfInt(0),
          std_dev |-> FloatOfInt(0), raw |-> <<>>]
    ELSE LET sorted_data == FSorted(data)
             n == Len(sorted_data)
         IN  [avg |-> FMean(data),
              min |-> sorted_data[1],
              max |-> sorted_data[n],
              median |-> FMedian(data),
              p90 |-> Fpercentile(sorted_data, 90),
              p99 |-> Fpercentile(sorted_data, 99),
              std_dev |-> IF n >= 2 THEN [stdev_of |-> data] ELSE FloatOfInt(0),
              raw |-> data]

\* -------------------------------------- _compute_stats called on floats
\* longest series of float samples
MaxFloatSamples == 3

\* 0.9, 1.0, 1.3 and 2.9: the floats nearest to these tenths
FloatValues == {FDivInt(FloatOfInt(tenths), 10) : tenths \in {9, 10, 13, 29}}

\* the series of up to MaxFloatSamples of these values, and
\* [1.0, 2.0, 3.0, 4.0, 5.0]
FloatSeries ==
    UNION {[1..n -> FloatValues] : n \in 0..MaxFloatSamples}
    \cup {[k \in 1..5 |-> FloatOfInt(k)]}

FloatInit ==
    /\ pc = "fn_call"
    /\ call \in {[fn |-> "_compute_stats", data |-> Ref(1), series |-> s] :
                    s \in FloatSeries}
    /\ ret = NotReturned
    /\ heap = <<call.series>>
    /\ benchmark = "None"
    /\ api_type = <<>>
    /\ provider = "None"
    /\ error = NoError
    /\ prompt = <<>>
    /\ runs = 0
    /\ i = 0
    /\ now = 0
    /\ start_time = 0
    /\ elapsed = 0
    /\ latency = Unbound
    /\ latencies = <<>>
    /\ throughputs = <<>>
    /\ total_times = <<>>
    /\ response = NoResponse
    /\ lines = <<>>
    /\ latency_stats = None
    /\ throughput_stats = None
    /\ total_time_stats = None
    /\ results = None
    /\ requests = <<>>
    /\ open = {}
    /\ failed = 0
    /\ qualified = <<>>
    /\ tainted = {}
    /\ stamp = -1
    /\ sleep_from = -1
    /\ sleep_to = -1
    /\ apis = <<>>
    /\ api_index = 0
    /\ batch_results = <<>>
    /\ outcomes = <<>>
    /\ posted = {}

\* stats = LLMAPIBenchmark._compute_stats(data), data a list of floats
FloatComputeStats ==
    /\ pc = "fn_call"
    /\ call.fn = "_compute_stats"
    /\ IF heap[call.data.ref] = <<>>
       THEN /\ heap' = Append(heap, <<>>)
            /\ ret' = Ok([F_compute_stats(<<>>) EXCEPT !.raw = Ref(Len(heap) + 1)])
       ELSE /\ heap' = heap \o <<FSorted(heap[call.data.ref]), heap[call.data.ref]>>
            /\ ret' = Ok([F_compute_stats(heap[call.data.ref])
                             EXCEPT !.raw = Ref(Len(heap) + 2)])
    /\ pc' = "fn_returned"
    /\ UNCHANGED call
    /\ UNCHANGED bench_vars
    /\ UNCHANGED batch_vars

SpecFloat == FloatInit /\ [][FloatComputeStats]_vars

\* C24: for every non-empty series the summary satisfies
\* median <= p90 <= p99 <= max, the median is the 50th percentile of the same
\* interpolation, and for [1, 2, 3, 4, 5] p90 is strictly greater than the
\* median.
C24_PercentileOrder ==
    (Returned("_compute_stats") /\ call.series # <<>>) =>
        /\ ~FLt(ret.val.p90, ret.val.median)
        /\ ~FLt(ret.val.p99, ret.val.p90)
        /\ ~FLt(ret.val.max, ret.val.p99)
        /\ ret.val.median = Fpercentile(FSorted(call.series), 50)
        /\ call.series = [k \in 1..5 |-> FloatOfInt(k)] => FLt(ret.val.median, ret.val.p90)

====
